---- MODULE Spec2Model ----
(***************************************************************************)
(* State-machine model of the perpl-dex-sdk core: the slotmap L3 order     *)
(* book (src/state/l2_book/mod.rs), the event application engine           *)
(* (src/state/exchange.rs) and the raw block stream (src/stream.rs).       *)
(*                                                                         *)
(* Each subsystem has its own specification over its own variables; the    *)
(* variables of the other subsystems are left unchanged.                   *)
(***************************************************************************)
EXTENDS Integers, Sequences, FiniteSets, TLC

VARIABLES
    book,         \* L2Book: [orders, order_index, asks, bids]
    lastCall,     \* name of the last book mutation that was called
    lastArg,      \* its argument: an order, or the batch of a snapshot load
    lastResult,   \* its result: "Init", "Ok", an error kind, or "Panic"
    exchange,     \* Exchange: [instant, track_all_accounts, accounts, perpetuals]
    batchInstant, \* instant of the batch last handed to apply_events
    batchEvents,  \* its events, where the specification keeps them
    applyResult,  \* result of that call: [kind, ...]
    chain,        \* the chain: chain[n] is the number of exchange logs of block n
    from,         \* block number the raw stream was started from
    cursor,       \* block_num of the stream's unfold state
    headReply,    \* reply to get_block_number of the poll in progress
    logsReply,    \* reply to get_logs of the poll in progress
    pc,           \* "query" while a poll is in progress, "sleep" between polls
    yielded,      \* items the stream has yielded so far
    processor,    \* TradeProcessor: [order_context, pending_maker_fills, prev_tx_index]
    tradeBlock,   \* block last handed to process_block: [block_number, events]
    trades,       \* trades of the BlockTrades that call returned
    ledger,       \* the contract: ledger[n + 1] is numberOfAccounts at block n
    builder       \* SnapshotBuilder::build in progress: [pc, block_id, reads, ...]

bookVars == <<book, lastCall, lastArg, lastResult>>

exchangeVars == <<exchange, batchInstant, batchEvents, applyResult>>

streamVars == <<chain, from, cursor, headReply, logsReply, pc, yielded>>

tradeVars == <<processor, tradeBlock, trades>>

snapshotVars == <<ledger, builder>>

vars == <<bookVars, exchangeVars, streamVars, tradeVars, snapshotVars>>

----------------------------------------------------------------------------
(* Bounds of the order-book model. *)

MaxOrderId == 3
MaxPrice == 1
MaxSize == 2

OrderIds == 1..MaxOrderId
Prices == 0..MaxPrice
Sizes == 0..MaxSize
Sides == {"Ask", "Bid"}

(* Option<OrderSlot>::None.  A live slot is represented by the id of the   *)
(* order it was allocated for: order_index is injective and ids in a       *)
(* batch are distinct, so the arena key and the order id determine each    *)
(* other.                                                                  *)
NoSlot == 0

(* Poisoned UD64 produced by an unsigned subtraction below zero. *)
NaN == -1

----------------------------------------------------------------------------
(* Finite maps. *)

EmptyMap == [x \in {} |-> 0]

Put(f, k, v) == [x \in (DOMAIN f) \cup {k} |-> IF x = k THEN v ELSE f[x]]

Drop(f, k) == [x \in (DOMAIN f) \ {k} |-> f[x]]

----------------------------------------------------------------------------
(* BookLevel (l3_book/level.rs). *)

DefaultLevel == [head |-> NoSlot, tail |-> NoSlot, cached_size |-> 0, cached_count |-> 0]

UDAdd(a, b) == IF a = NaN THEN NaN ELSE a + b

UDSub(a, b) == IF a = NaN \/ a < b THEN NaN ELSE a - b

(* cached_count is a u32.  It is represented by its residue modulo 2^32    *)
(* nearest to zero, so that -1 stands for the wrapped value 2^32 - 1 and   *)
(* plain integer arithmetic is the wrapping arithmetic of the field.       *)
add_size(level, size) ==
    [level EXCEPT !.cached_size = UDAdd(@, size),
                  !.cached_count = @ + 1]

sub_size(level, size) ==
    [level EXCEPT !.cached_size = UDSub(@, size),
                  !.cached_count = @ - 1]

(* update_size that only adds the new size. *)
update_size_keeping_old(level, old_size, new_size) ==
    [level EXCEPT !.cached_size = UDAdd(@, new_size)]

update_size(level, old_size, new_size) ==
    [level EXCEPT !.cached_size = UDAdd(UDSub(@, old_size), new_size)]

is_empty(level) == level.head = NoSlot

(* Checked arithmetic traps (integer overflow check, decimal signal) when  *)
(* a subtraction goes below zero.                                          *)
SizeTraps(level, size) == level.cached_size = NaN \/ level.cached_size < size

CountTraps(level) == level.cached_count = 0

----------------------------------------------------------------------------
(* L2Book (l2_book/mod.rs). *)

EmptyBook == [orders |-> EmptyMap, order_index |-> EmptyMap,
              asks |-> EmptyMap, bids |-> EmptyMap]

SideLevels(b, side) == IF side = "Ask" THEN b.asks ELSE b.bids

WithLevels(b, side, levels) ==
    IF side = "Ask" THEN [b EXCEPT !.asks = levels] ELSE [b EXCEPT !.bids = levels]

HasLevel(b, side, price) == price \in DOMAIN SideLevels(b, side)

(* L3Order::new: the order data with both links unset. *)
NewL3Order(o) ==
    [order_id |-> o.order_id, price |-> o.price, size |-> o.size, side |-> o.side,
     prev |-> NoSlot, next |-> NoSlot]

(* Result of a mutation: the book afterwards, the returned value, and      *)
(* whether checked arithmetic trapped on the way.                          *)
Ret(b, res, trap) == [book |-> b, res |-> res, trap |-> trap]

(* add_order without the size validation. *)
add_order_any_size(b, o) ==
    IF o.price = 0 THEN Ret(b, "InvalidOrderPrice", FALSE)
    ELSE IF o.order_id \in DOMAIN b.order_index
         THEN Ret(b, "OrderAlreadyExists", FALSE)
    ELSE
      LET levels == SideLevels(b, o.side)
          level == IF o.price \in DOMAIN levels THEN levels[o.price] ELSE DefaultLevel
          slot == o.order_id
          orders1 == Put(b.orders, slot, [NewL3Order(o) EXCEPT !.prev = level.tail])
          orders2 == IF level.tail # NoSlot
                     THEN [orders1 EXCEPT ![level.tail].next = slot]
                     ELSE orders1
          level1 == [level EXCEPT !.head = IF @ = NoSlot THEN slot ELSE @,
                                  !.tail = slot]
      IN Ret(WithLevels([b EXCEPT !.orders = orders2,
                                  !.order_index = Put(@, o.order_id, slot)],
                        o.side, Put(levels, o.price, add_size(level1, o.size))),
             "Ok", FALSE)

(* add_order linking the new order in front of the head. *)
add_order_at_front(b, o) ==
    IF o.size = 0 THEN Ret(b, "InvalidOrderSize", FALSE)
    ELSE IF o.price = 0 THEN Ret(b, "InvalidOrderPrice", FALSE)
    ELSE IF o.order_id \in DOMAIN b.order_index
         THEN Ret(b, "OrderAlreadyExists", FALSE)
    ELSE
      LET levels == SideLevels(b, o.side)
          level == IF o.price \in DOMAIN levels THEN levels[o.price] ELSE DefaultLevel
          slot == o.order_id
          orders1 == Put(b.orders, slot, [NewL3Order(o) EXCEPT !.next = level.head])
          orders2 == IF level.head # NoSlot
                     THEN [orders1 EXCEPT ![level.head].prev = slot]
                     ELSE orders1
          level1 == [level EXCEPT !.tail = IF @ = NoSlot THEN slot ELSE @,
                                  !.head = slot]
      IN Ret(WithLevels([b EXCEPT !.orders = orders2,
                                  !.order_index = Put(@, o.order_id, slot)],
                        o.side, Put(levels, o.price, add_size(level1, o.size))),
             "Ok", FALSE)

add_order(b, o) ==
    IF o.size = 0 THEN Ret(b, "InvalidOrderSize", FALSE)
    ELSE IF o.price = 0 THEN Ret(b, "InvalidOrderPrice", FALSE)
    ELSE IF o.order_id \in DOMAIN b.order_index
            /\ b.order_index[o.order_id] \in DOMAIN b.orders
         THEN Ret(b, "OrderAlreadyExists", FALSE)
    ELSE
      LET levels == SideLevels(b, o.side)
          level == IF o.price \in DOMAIN levels THEN levels[o.price] ELSE DefaultLevel
          slot == o.order_id
          l3_order == [NewL3Order(o) EXCEPT !.prev = level.tail]
          orders1 == Put(b.orders, slot, l3_order)
          orders2 == IF level.tail # NoSlot /\ level.tail \in DOMAIN orders1
                     THEN [orders1 EXCEPT ![level.tail].next = slot]
                     ELSE orders1
          level1 == [level EXCEPT !.head = IF @ = NoSlot THEN slot ELSE @,
                                  !.tail = slot]
          level2 == add_size(level1, o.size)
          b1 == WithLevels([b EXCEPT !.orders = orders2,
                                     !.order_index = Put(@, o.order_id, slot)],
                           o.side, Put(levels, o.price, level2))
      IN Ret(b1, "Ok", FALSE)

(* update_order that adds the order when its id is not in the book. *)
update_order_or_add(b, o) ==
    IF o.size = 0 THEN Ret(b, "InvalidOrderSize", FALSE)
    ELSE IF o.order_id \notin DOMAIN b.order_index THEN add_order(b, o)
    ELSE
      LET slot == b.order_index[o.order_id]
          old_size == b.orders[slot].size
          price == b.orders[slot].price
          side == b.orders[slot].side
          orders1 == [b.orders EXCEPT ![slot].price = o.price,
                                      ![slot].size = o.size,
                                      ![slot].side = o.side]
          levels == SideLevels(b, side)
      IN Ret(WithLevels([b EXCEPT !.orders = orders1], side,
                        [levels EXCEPT ![price] = update_size(@, old_size, o.size)]),
             "Ok", SizeTraps(levels[price], old_size))

update_order(b, o) ==
    IF o.size = 0 THEN Ret(b, "InvalidOrderSize", FALSE)
    ELSE IF o.order_id \notin DOMAIN b.order_index THEN Ret(b, "OrderNotFound", FALSE)
    ELSE IF b.order_index[o.order_id] \notin DOMAIN b.orders
         THEN Ret(b, "OrderNotFound", FALSE)
    ELSE
      LET slot == b.order_index[o.order_id]
          l3_order == b.orders[slot]
          old_size == l3_order.size
          price == l3_order.price
          side == l3_order.side
          orders1 == [b.orders EXCEPT ![slot].price = o.price,
                                      ![slot].size = o.size,
                                      ![slot].side = o.side]
          levels == SideLevels(b, side)
      IN IF price \in DOMAIN levels
         THEN Ret(WithLevels([b EXCEPT !.orders = orders1], side,
                             [levels EXCEPT ![price] = update_size(@, old_size, o.size)]),
                  "Ok", SizeTraps(levels[price], old_size))
         ELSE Ret([b EXCEPT !.orders = orders1], "Ok", FALSE)

(* Unlinking step shared by remove_order_by_id and move_to_back: the       *)
(* neighbours of `slot` are linked to each other.                          *)
(* Unlinking that repairs the forward link only. *)
UnlinkForward(orders, slot) ==
    LET prev_slot == orders[slot].prev
    IN IF prev_slot # NoSlot /\ prev_slot \in DOMAIN orders
       THEN [orders EXCEPT ![prev_slot].next = orders[slot].next]
       ELSE orders

Unlink(orders, slot) ==
    LET prev_slot == orders[slot].prev
        next_slot == orders[slot].next
        orders1 == IF prev_slot # NoSlot /\ prev_slot \in DOMAIN orders
                   THEN [orders EXCEPT ![prev_slot].next = next_slot]
                   ELSE orders
    IN IF next_slot # NoSlot /\ next_slot \in DOMAIN orders1
       THEN [orders1 EXCEPT ![next_slot].prev = prev_slot]
       ELSE orders1

remove_order_by_id(b, order_id) ==
    IF order_id \notin DOMAIN b.order_index THEN Ret(b, "OrderNotFound", FALSE)
    ELSE
      LET slot == b.order_index[order_id]
          b0 == [b EXCEPT !.order_index = Drop(@, order_id)]
      IN IF slot \notin DOMAIN b.orders THEN Ret(b0, "OrderNotFound", FALSE)
         ELSE
           LET l3_order == b.orders[slot]
               prev_slot == l3_order.prev
               next_slot == l3_order.next
               price == l3_order.price
               size == l3_order.size
               side == l3_order.side
               orders1 == Unlink(b.orders, slot)
               levels == SideLevels(b, side)
               present == price \in DOMAIN levels
               level1 == [levels[price] EXCEPT
                            !.head = IF @ = slot THEN next_slot ELSE @,
                            !.tail = IF @ = slot THEN prev_slot ELSE @]
               level2 == sub_size(level1, size)
               levels1 == IF ~present THEN levels
                          ELSE IF is_empty(level2) THEN Drop(levels, price)
                          ELSE [levels EXCEPT ![price] = level2]
               b1 == WithLevels([b0 EXCEPT !.orders = Drop(orders1, slot)], side, levels1)
           IN Ret(b1, "Ok",
                  present /\ (SizeTraps(levels[price], size) \/ CountTraps(levels[price])))

(* move_to_back that updates the order where it stands. *)
move_to_back_in_place(b, o) == update_order(b, o)

move_to_back(b, o) ==
    IF o.order_id \notin DOMAIN b.order_index THEN Ret(b, "OrderNotFound", FALSE)
    ELSE IF b.order_index[o.order_id] \notin DOMAIN b.orders
         THEN Ret(b, "OrderNotFound", FALSE)
    ELSE
      LET slot == b.order_index[o.order_id]
          l3_order == b.orders[slot]
          next_slot == l3_order.next
          price == l3_order.price
          old_size == l3_order.size
          side == l3_order.side
          levels == SideLevels(b, side)
          present == price \in DOMAIN levels
          updated(orders) == [orders EXCEPT ![slot].price = o.price,
                                            ![slot].size = o.size,
                                            ![slot].side = o.side]
      IN IF present /\ levels[price].tail = slot
         THEN Ret(WithLevels([b EXCEPT !.orders = updated(@)], side,
                             [levels EXCEPT ![price] = update_size(@, old_size, o.size)]),
                  "Ok", SizeTraps(levels[price], old_size))
         ELSE
           LET orders1 == Unlink(b.orders, slot)
           IN IF ~present THEN Ret([b EXCEPT !.orders = orders1], "Ok", FALSE)
              ELSE
                LET level == levels[price]
                    old_tail == level.tail
                    orders2 == IF old_tail # NoSlot /\ old_tail \in DOMAIN orders1
                               THEN [orders1 EXCEPT ![old_tail].next = slot]
                               ELSE orders1
                    orders3 == updated([orders2 EXCEPT ![slot].prev = old_tail,
                                                       ![slot].next = NoSlot])
                    level1 == [level EXCEPT !.head = IF @ = slot THEN next_slot ELSE @,
                                            !.tail = slot]
                    level2 == update_size(level1, old_size, o.size)
                IN Ret(WithLevels([b EXCEPT !.orders = orders3], side,
                                  [levels EXCEPT ![price] = level2]),
                       "Ok", SizeTraps(level, old_size))

(* --- add_orders_from_snapshot --- *)

RECURSIVE SumSizes(_, _)
SumSizes(orders, slots) ==
    IF slots = <<>> THEN 0
    ELSE orders[Head(slots)].size + SumSizes(orders, Tail(slots))

SeqRange(q) == {q[i] : i \in 1..Len(q)}

(* slots.iter().find(pred): the first element satisfying pred, or None. *)
FindFirst(slots, Pred(_)) ==
    LET hits == {i \in 1..Len(slots) : Pred(slots[i])}
    IN IF hits = {} THEN NoSlot
       ELSE slots[CHOOSE i \in hits : \A j \in hits : i <= j]

(* First pass position: index of the first order failing validation, or 0. *)
FirstInvalid(batch) ==
    LET bad == {i \in 1..Len(batch) : batch[i].size = 0 \/ batch[i].price = 0}
    IN IF bad = {} THEN 0 ELSE CHOOSE i \in bad : \A j \in bad : i <= j

(* First pass over batch[1..n]: every order is inserted unlinked into the  *)
(* arena and into order_index.                                             *)
InsertUnlinked(b, batch, n) ==
    LET ids == {batch[i].order_id : i \in 1..n}
        at(id) == CHOOSE i \in 1..n : batch[i].order_id = id
                                      /\ \A j \in 1..n : batch[j].order_id = id => j <= i
    IN [b EXCEPT
          !.orders = [x \in (DOMAIN @) \cup ids |->
                        IF x \in ids THEN NewL3Order(batch[at(x)]) ELSE @[x]],
          !.order_index = [x \in (DOMAIN @) \cup ids |-> IF x \in ids THEN x ELSE @[x]]]

(* Second pass: a hint becomes a link only if it names an order of the     *)
(* batch; any other hint becomes None.                                     *)
LinkFromHints(orders, batch) ==
    LET ids == {batch[i].order_id : i \in 1..Len(batch)}
        at(id) == CHOOSE i \in 1..Len(batch) : batch[i].order_id = id
        toSlot(hint) == IF hint \in ids THEN hint ELSE NoSlot
    IN [x \in DOMAIN orders |->
          IF x \in ids
          THEN [orders[x] EXCEPT !.prev = toSlot(batch[at(x)].prev_order_id),
                                 !.next = toSlot(batch[at(x)].next_order_id)]
          ELSE orders[x]]

(* Third pass, one (price, side) group: the slots of the group in input    *)
(* order, and the level built from them.                                   *)
GroupSlots(batch, price, side) ==
    LET member(o) == o.price = price /\ o.side = side
        RECURSIVE pick(_)
        pick(i) == IF i > Len(batch) THEN <<>>
                   ELSE IF member(batch[i]) THEN <<batch[i].order_id>> \o pick(i + 1)
                   ELSE pick(i + 1)
    IN pick(1)

BuildLevel(orders, slots) ==
    LET inGroup == SeqRange(slots)
        isHead(slot) == orders[slot].prev = NoSlot \/ orders[slot].prev \notin inGroup
        isTail(slot) == orders[slot].next = NoSlot \/ orders[slot].next \notin inGroup
    IN [head |-> FindFirst(slots, isHead),
        tail |-> FindFirst(slots, isTail),
        cached_size |-> SumSizes(orders, slots),
        cached_count |-> Len(slots)]

add_orders_from_snapshot(b, batch) ==
    LET bad == FirstInvalid(batch)
    IN IF bad # 0
       THEN Ret(InsertUnlinked(b, batch, bad - 1),
                IF batch[bad].size = 0 THEN "InvalidOrderSize" ELSE "InvalidOrderPrice",
                FALSE)
       ELSE
         LET b1 == InsertUnlinked(b, batch, Len(batch))
             orders2 == LinkFromHints(b1.orders, batch)
             pricesOf(side) == {batch[i].price : i \in {j \in 1..Len(batch) : batch[j].side = side}}
             rebuilt(levels, side) ==
                 [p \in (DOMAIN levels) \cup pricesOf(side) |->
                    IF p \in pricesOf(side)
                    THEN BuildLevel(orders2, GroupSlots(batch, p, side))
                    ELSE levels[p]]
         IN Ret([b1 EXCEPT !.orders = orders2,
                           !.asks = rebuilt(@, "Ask"),
                           !.bids = rebuilt(@, "Bid")],
                "Ok", FALSE)

----------------------------------------------------------------------------
(* Order-book actions: one per mutation method. *)

OrderInputs == [order_id : OrderIds, price : Prices, size : Sizes, side : Sides]

(* An amendment keeps the identity, price and side of the resting order    *)
(* and carries a new size (a price change is a remove followed by an add). *)
Amended(b, order_id, size) ==
    IF order_id \in DOMAIN b.order_index /\ b.order_index[order_id] \in DOMAIN b.orders
    THEN [order_id |-> order_id, price |-> b.orders[b.order_index[order_id]].price,
          size |-> size, side |-> b.orders[b.order_index[order_id]].side,
          prev_size |-> b.orders[b.order_index[order_id]].size]
    ELSE [order_id |-> order_id, price |-> MaxPrice, size |-> size, side |-> "Ask",
          prev_size |-> size]

(* A mutation returns its value; where checked arithmetic trapped, the     *)
(* build either wraps and returns, or panics (the book is not used         *)
(* afterwards).                                                            *)
Outcomes(r) == {r.res} \cup (IF r.trap THEN {"Panic"} ELSE {})

Returns(call, arg, r) ==
    /\ lastCall' = call
    /\ lastArg' = arg
    /\ book' = r.book
    /\ lastResult' \in Outcomes(r)

(* The argument before any call, and of a call that takes an id only. *)
NoOrder == [order_id |-> NoSlot, price |-> 0, size |-> 0, side |-> "Ask"]

AddOrderFrom(inputs) ==
    /\ lastResult # "Panic"
    /\ \E o \in inputs : Returns("add_order", o, add_order(book, o))

UpdateOrderTo(sizes) ==
    /\ lastResult # "Panic"
    /\ \E id \in OrderIds, size \in sizes :
         \E o \in {Amended(book, id, size)} :
            Returns("update_order", o, update_order(book, o))

RemoveOrderById ==
    /\ lastResult # "Panic"
    /\ \E id \in OrderIds :
          Returns("remove_order_by_id", [NoOrder EXCEPT !.order_id = id],
                  remove_order_by_id(book, id))

MoveToBackWith(sizes) ==
    /\ lastResult # "Panic"
    /\ \E id \in OrderIds, size \in sizes :
         \E o \in {Amended(book, id, size)} :
            Returns("move_to_back", o, move_to_back(book, o))

AddOrder == AddOrderFrom(OrderInputs)

UpdateOrder == UpdateOrderTo(Sizes)

MoveToBack == MoveToBackWith(Sizes)

(* The same calls on the asks of one price level: the prices are zero and  *)
(* the top price, the sizes zero, one and the top size; an order moved to  *)
(* the back carries a positive size.                                       *)
QueueSizes == {0, 1, MaxSize}

QueueInputs == [order_id : OrderIds, price : {0, MaxPrice}, size : QueueSizes, side : {"Ask"}]

AddQueued == AddOrderFrom(QueueInputs)

UpdateQueued == UpdateOrderTo(QueueSizes)

MoveQueuedToBack == MoveToBackWith(QueueSizes \ {0})

(* Snapshot batches.  The authoritative book holds, at each (price, side), *)
(* a FIFO queue; order ids are opaque, so the queue order is taken to be   *)
(* the id order and the batch lists the orders in any order.  `gaps` is    *)
(* the set of batch orders whose successor in the queue is not part of the *)
(* batch: their next hint, and the prev hint of the following batch order, *)
(* name an order outside the batch.  A source that does not populate the   *)
(* hints delivers every hint as None.                                      *)
OutsideId == MaxOrderId + 1

IdSeqs ==
    UNION {{q \in [1..k -> OrderIds] : \A i, j \in 1..k : q[i] = q[j] => i = j}
             : k \in 0..MaxOrderId}

Shapes == [price : Prices, size : Sizes, side : Sides]

SnapshotBatch(ids, shape, populated, gaps) ==
    LET n == Len(ids)
        same(i, j) == shape[i].price = shape[j].price /\ shape[i].side = shape[j].side
        before(i) == {j \in 1..n : same(i, j) /\ ids[j] < ids[i]}
        after(i) == {j \in 1..n : same(i, j) /\ ids[j] > ids[i]}
        pred(i) == CHOOSE j \in before(i) : \A k \in before(i) : ids[k] <= ids[j]
        succ(i) == CHOOSE j \in after(i) : \A k \in after(i) : ids[j] <= ids[k]
        prevHint(i) == IF ~populated \/ before(i) = {} THEN NoSlot
                       ELSE IF ids[pred(i)] \in gaps THEN OutsideId
                       ELSE ids[pred(i)]
        nextHint(i) == IF ~populated THEN NoSlot
                       ELSE IF ids[i] \in gaps THEN OutsideId
                       ELSE IF after(i) = {} THEN NoSlot
                       ELSE ids[succ(i)]
    IN [i \in 1..n |->
          [order_id |-> ids[i], price |-> shape[i].price, size |-> shape[i].size,
           side |-> shape[i].side,
           prev_order_id |-> prevHint(i), next_order_id |-> nextHint(i)]]

(* The snapshot builder loads a freshly created book, once. *)
AddOrdersFromSnapshot ==
    /\ lastCall = "new"
    /\ book = EmptyBook
    /\ \E ids \in IdSeqs :
         \E shape \in [1..Len(ids) -> Shapes], populated \in BOOLEAN :
           \E gaps \in IF populated THEN SUBSET SeqRange(ids) ELSE {{}} :
             \E batch \in {SnapshotBatch(ids, shape, populated, gaps)} :
                Returns("add_orders_from_snapshot", batch,
                        add_orders_from_snapshot(book, batch))

(* The orders of a perpetual as the contract holds them: `ids` lists them  *)
(* so that the orders of one price level stand in their FIFO order, and    *)
(* each order carries the ids of its neighbours in its level.              *)
RestingShapes == [price : Prices \ {0}, size : Sizes \ {0}, side : Sides]

OnChainOrders(ids, shape) ==
    LET n == Len(ids)
        same(i, j) == shape[i].price = shape[j].price /\ shape[i].side = shape[j].side
        before(i) == {j \in 1..n : same(i, j) /\ j < i}
        after(i) == {j \in 1..n : same(i, j) /\ j > i}
        pred(i) == CHOOSE j \in before(i) : \A k \in before(i) : k <= j
        succ(i) == CHOOSE j \in after(i) : \A k \in after(i) : j <= k
    IN [i \in 1..n |->
          [order_id |-> ids[i], price |-> shape[i].price, size |-> shape[i].size,
           side |-> shape[i].side,
           prev_order_id |-> IF before(i) = {} THEN NoSlot ELSE ids[pred(i)],
           next_order_id |-> IF after(i) = {} THEN NoSlot ELSE ids[succ(i)]]]

(* getOrderIdIndex: the ids are read off the bitmap leaves in ascending    *)
(* order, and the orders are fetched and returned in that order.           *)
RECURSIVE FetchedFrom(_, _)
FetchedFrom(orders, id) ==
    IF id > MaxOrderId THEN <<>>
    ELSE SelectSeq(orders, LAMBDA o : o.order_id = id) \o FetchedFrom(orders, id + 1)

(* for_each(|ord| perp.add_order(..)) over the fetched orders. *)
RECURSIVE AddEach(_, _)
AddEach(b, orders) ==
    IF orders = <<>> THEN b
    ELSE AddEach(add_order(b, Head(orders)).book, Tail(orders))

perpetual_orders(b, orders) == Ret(AddEach(b, FetchedFrom(orders, 1)), "Ok", FALSE)

(* SnapshotBuilder::build loads the book of a freshly created perpetual. *)
PerpetualOrders ==
    /\ lastCall = "new"
    /\ book = EmptyBook
    /\ \E ids \in IdSeqs :
         \E shape \in [1..Len(ids) -> RestingShapes] :
           \E orders \in {OnChainOrders(ids, shape)} :
              Returns("perpetual_orders", FetchedFrom(orders, 1),
                      perpetual_orders(book, orders))

----------------------------------------------------------------------------
(* Structure of a book, as the level iterator sees it. *)

(* LevelOrdersIter: the slots visited from `slot` following next. *)
RECURSIVE WalkNext(_, _, _)
WalkNext(orders, slot, fuel) ==
    IF slot = NoSlot \/ slot \notin DOMAIN orders \/ fuel = 0 THEN <<>>
    ELSE <<slot>> \o WalkNext(orders, orders[slot].next, fuel - 1)

(* The same traversal following prev. *)
RECURSIVE WalkPrev(_, _, _)
WalkPrev(orders, slot, fuel) ==
    IF slot = NoSlot \/ slot \notin DOMAIN orders \/ fuel = 0 THEN <<>>
    ELSE <<slot>> \o WalkPrev(orders, orders[slot].prev, fuel - 1)

Reversed(q) == [i \in 1..Len(q) |-> q[Len(q) + 1 - i]]

LevelKeys(b) == {<<sd, p>> : sd \in Sides, p \in DOMAIN b.asks \cup DOMAIN b.bids}
                  \cap {k \in Sides \X Prices : HasLevel(b, k[1], k[2])}

LevelAt(b, k) == SideLevels(b, k[1])[k[2]]

Chain(b, k) == WalkNext(b.orders, LevelAt(b, k).head, Cardinality(DOMAIN b.orders) + 1)

ChainBack(b, k) == WalkPrev(b.orders, LevelAt(b, k).tail, Cardinality(DOMAIN b.orders) + 1)

RestingAt(b, k) == {x \in DOMAIN b.orders : b.orders[x].side = k[1] /\ b.orders[x].price = k[2]}

IsError(res) == res \in {"InvalidOrderSize", "InvalidOrderPrice", "OrderAlreadyExists",
                         "OrderNotFound"}

(* I3, I4 *)
AggregatesMatchChain(b) ==
    \A k \in LevelKeys(b) :
        /\ LevelAt(b, k).cached_size = SumSizes(b.orders, Chain(b, k))
        /\ LevelAt(b, k).cached_count = Len(Chain(b, k))

(* I2, I5 *)
ChainEndsLinked(b) ==
    \A k \in LevelKeys(b) :
        LET level == LevelAt(b, k)
        IN /\ level.head \in DOMAIN b.orders
           /\ level.tail \in DOMAIN b.orders
           /\ b.orders[level.head].prev = NoSlot
           /\ b.orders[level.tail].next = NoSlot
           /\ Chain(b, k)[Len(Chain(b, k))] = level.tail
           /\ ChainBack(b, k) = Reversed(Chain(b, k))

(* I6 *)
LevelIffOrders(b) ==
    \A sd \in Sides, p \in Prices : HasLevel(b, sd, p) <=> RestingAt(b, <<sd, p>>) # {}

(* I1 *)
EveryOrderInItsLevel(b) ==
    \A x \in DOMAIN b.orders :
        \A k \in Sides \X Prices :
            (HasLevel(b, k[1], k[2]) /\ x \in SeqRange(Chain(b, k)))
               <=> (k = <<b.orders[x].side, b.orders[x].price>>)

(* I7 *)
PositiveOrders(b) == \A x \in DOMAIN b.orders : b.orders[x].price > 0 /\ b.orders[x].size > 0

(* Lookup by id agrees with level membership. *)
IndexAgrees(b) ==
    /\ DOMAIN b.order_index = DOMAIN b.orders
    /\ \A id \in DOMAIN b.order_index : b.orders[b.order_index[id]].order_id = id
    /\ EveryOrderInItsLevel(b)

BookInvariants(b) ==
    /\ EveryOrderInItsLevel(b)
    /\ ChainEndsLinked(b)
    /\ AggregatesMatchChain(b)
    /\ LevelIffOrders(b)
    /\ PositiveOrders(b)

----------------------------------------------------------------------------
(* Exchange (exchange.rs): event application engine. *)

MaxBlock == 2
MaxTimestamp == 1
MaxEvents == 2
MaxAccountId == 2
MaxPositionSize == 1
MaxOpenInterest == 4

AccountIds == 1..MaxAccountId
PositionSizes == 1..MaxPositionSize
PositionTypes == {"Long", "Short"}
TrackedPerpetuals == {1}

(* StateInstant: ordered by block number, then by block timestamp          *)
(* (derived Ord of the struct).                                            *)
StateInstant(block_number, block_timestamp) ==
    [block_number |-> block_number, block_timestamp |-> block_timestamp]

InstantGE(a, b) ==
    \/ a.block_number > b.block_number
    \/ a.block_number = b.block_number /\ a.block_timestamp >= b.block_timestamp

Result(kind) == [kind |-> kind, expected |-> 0, got |-> 0]

(* Ok(Some(StateBlockEvents)): of the state events those made from the     *)
(* order context are kept, each with the indices of its raw event.         *)
Done(state_events) == [kind |-> "Ok", expected |-> 0, got |-> 0, events |-> state_events]

OrderContextExpected(tx_index, log_index) ==
    [kind |-> "OrderContextExpected", tx_index |-> tx_index, log_index |-> log_index]

BlockOutOfOrder(expected, got) ==
    [kind |-> "BlockOutOfOrder", expected |-> expected, got |-> got]

(* Account::from_event *)
NewAccount == [balance |-> 0, positions |-> EmptyMap]

(* Position::opened *)
OpenedPosition(type, size) == [type |-> type, size |-> size]

(* Perpetual::update_open_interest; the second component tells whether    *)
(* the unsigned subtraction went below zero.                               *)
update_open_interest(perp, prev_size, new_size) ==
    [perp EXCEPT !.open_interest = UDAdd(UDSub(@, prev_size), new_size)]

InterestTraps(perp, prev_size) == perp.open_interest = NaN \/ perp.open_interest < prev_size

ensure_account(ex, id) ==
    IF ex.track_all_accounts /\ id \notin DOMAIN ex.accounts
    THEN [ex EXCEPT !.accounts = Put(@, id, NewAccount)]
    ELSE ex

(* Outcome of one raw event: the exchange afterwards, the error it         *)
(* returned ("" for none) and whether checked arithmetic trapped.          *)
Applied(ex, err, trap) == [ex |-> ex, err |-> err, trap |-> trap]

HasPosition(ex, acc, perp) ==
    acc \in DOMAIN ex.accounts /\ perp \in DOMAIN ex.accounts[acc].positions

(* Exchange::position followed by the handler body `Body(ex, pos)`. *)
WithPosition(ex0, e, Body(_, _)) ==
    LET ex == ensure_account(ex0, e.account)
    IN IF e.account \notin DOMAIN ex.accounts THEN Applied(ex, "", FALSE)
       ELSE IF e.perp \notin DOMAIN ex.accounts[e.account].positions
            THEN Applied(ex, "PositionNotFound", FALSE)
       ELSE Body(ex, ex.accounts[e.account].positions[e.perp])

(* PositionIncreased, PositionDecreased: the size becomes the end size. *)
Resize(ex, e, pos) ==
    LET ex1 == [ex EXCEPT !.accounts[e.account].positions[e.perp].size = e.size]
    IN IF pos.type = "Long"
       THEN Applied([ex1 EXCEPT !.perpetuals[e.perp] =
                                    update_open_interest(@, pos.size, e.size)],
                    "", InterestTraps(ex.perpetuals[e.perp], pos.size))
       ELSE Applied(ex1, "", FALSE)

Invert(ex, e, pos) ==
    LET ex1 == [ex EXCEPT !.accounts[e.account].positions[e.perp] =
                              OpenedPosition(e.type, e.size)]
    IN IF e.type = "Long"
       THEN Applied([ex1 EXCEPT !.perpetuals[e.perp] = update_open_interest(@, 0, e.size)],
                    "", ex.perpetuals[e.perp].open_interest = NaN)
       ELSE Applied([ex1 EXCEPT !.perpetuals[e.perp] = update_open_interest(@, pos.size, 0)],
                    "", InterestTraps(ex.perpetuals[e.perp], pos.size))

apply_raw_event(ex0, e) ==
    CASE e.kind = "AccountLiquidationCredit" ->
           LET ex == ensure_account(ex0, e.account)
           IN IF e.account \in DOMAIN ex.accounts
              THEN Applied([ex EXCEPT !.accounts[e.account].balance = e.size], "", FALSE)
              ELSE Applied(ex, "", FALSE)
      [] e.kind = "PositionOpened" ->
           LET ex == ensure_account(ex0, e.account)
           IN IF e.account \notin DOMAIN ex.accounts \/ e.perp \notin DOMAIN ex.perpetuals
              THEN Applied(ex, "", FALSE)
              ELSE
                LET ex1 == [ex EXCEPT !.accounts[e.account].positions =
                                          Put(@, e.perp, OpenedPosition(e.type, e.size))]
                IN IF e.type = "Long"
                   THEN Applied([ex1 EXCEPT !.perpetuals[e.perp] =
                                                update_open_interest(@, 0, e.size)],
                                "", ex.perpetuals[e.perp].open_interest = NaN)
                   ELSE Applied(ex1, "", FALSE)
      [] e.kind = "PositionClosed" ->
           LET ex == ensure_account(ex0, e.account)
           IN IF e.account \notin DOMAIN ex.accounts \/ e.perp \notin DOMAIN ex.perpetuals
              THEN Applied(ex, "", FALSE)
              ELSE IF e.perp \notin DOMAIN ex.accounts[e.account].positions
              THEN Applied(ex, "PositionNotFound", FALSE)
              ELSE
                LET pos == ex.accounts[e.account].positions[e.perp]
                    ex1 == [ex EXCEPT !.accounts[e.account].positions = Drop(@, e.perp)]
                IN IF e.type = "Long"
                   THEN Applied([ex1 EXCEPT !.perpetuals[e.perp] =
                                                update_open_interest(@, pos.size, 0)],
                                "", InterestTraps(ex.perpetuals[e.perp], pos.size))
                   ELSE Applied(ex1, "", FALSE)
      [] e.kind \in {"PositionIncreased", "PositionDecreased"} ->
           WithPosition(ex0, e, LAMBDA ex, pos : Resize(ex, e, pos))
      [] e.kind = "PositionInverted" ->
           WithPosition(ex0, e, LAMBDA ex, pos : Invert(ex, e, pos))

(* Option<OrderContext>: `set` tells Some from None. *)
NoContext == [set |-> FALSE, perpetual_id |-> 0, account_id |-> 0, request_id |-> 0,
              order_id |-> 0, type |-> 0, side |-> "Ask", price |-> 0]

(* OrderContext::from(OrderRequest); order_id 0 is the default of an       *)
(* absent order id.                                                        *)
OrderContextFrom(e) ==
    [set |-> TRUE, perpetual_id |-> e.perp, account_id |-> e.account,
     request_id |-> e.request_id, order_id |-> e.order_id, type |-> e.type,
     side |-> e.side, price |-> e.price]

OrderKinds == {"OrderRequest", "OrderBatchCompleted", "OrderPlaced", "OrderChanged",
               "OrderCancelled", "TakerOrderFilled", "CrossesBook", "PriceOutOfRange"}

(* Outcome of one raw event with the order context afterwards and the      *)
(* order events made from the context.                                     *)
Stepped(ex, err, trap, ctx, out) ==
    [ex |-> ex, err |-> err, trap |-> trap, ctx |-> ctx, out |-> out]

(* The handlers of the events read through the order context.  CrossesBook *)
(* stands for the order-rejection kinds, whose handlers are alike but for  *)
(* the error type they report.                                             *)
apply_order_event(ex, e, ctx) ==
    LET tracked == ctx.perpetual_id \in DOMAIN ex.perpetuals
        known == ctx.account_id \in DOMAIN ex.accounts
        made == <<[tx_index |-> e.tx_index, log_index |-> e.log_index,
                   request_id |-> ctx.request_id]>>
        order_event == IF tracked THEN made ELSE <<>>
        order_error == IF known THEN made ELSE <<>>
        balanced(x) == IF known THEN [x EXCEPT !.accounts[ctx.account_id].balance = e.size]
                       ELSE x
        must_ctx == Stepped(ex, "OrderContextExpected", FALSE, ctx, <<>>)
    IN CASE e.kind = "OrderRequest" -> Stepped(ex, "", FALSE, OrderContextFrom(e), <<>>)
         [] e.kind = "OrderBatchCompleted" -> Stepped(ex, "", FALSE, NoContext, <<>>)
         [] e.kind = "OrderPlaced" ->
              IF ~ctx.set THEN must_ctx
              ELSE IF tracked
              THEN Stepped(balanced([ex EXCEPT !.perpetuals[ctx.perpetual_id].orders =
                                                   @ \cup {e.order_id}]),
                           "", FALSE, ctx, order_event)
              ELSE Stepped(balanced(ex), "", FALSE, ctx, <<>>)
         [] e.kind = "OrderCancelled" ->
              IF ~ctx.set THEN must_ctx
              ELSE IF tracked
              THEN IF ctx.order_id \notin ex.perpetuals[ctx.perpetual_id].orders
                   THEN Stepped(ex, "OrderNotFound", FALSE, ctx, <<>>)
                   ELSE Stepped(balanced([ex EXCEPT !.perpetuals[ctx.perpetual_id].orders =
                                                        @ \ {ctx.order_id}]),
                                "", FALSE, ctx, order_event)
              ELSE Stepped(balanced(ex), "", FALSE, ctx, <<>>)
         [] e.kind = "OrderChanged" ->
              IF ~ctx.set THEN must_ctx
              ELSE IF tracked /\ ctx.order_id \notin ex.perpetuals[ctx.perpetual_id].orders
              THEN Stepped(ex, "OrderNotFound", FALSE, ctx, <<>>)
              ELSE Stepped(balanced(ex), "", FALSE, ctx, order_event)
         [] e.kind = "TakerOrderFilled" ->
              IF ~ctx.set THEN must_ctx
              ELSE Stepped(balanced(ex), "", FALSE, ctx, order_event)
         [] e.kind = "CrossesBook" ->
              IF ~ctx.set THEN must_ctx
              ELSE Stepped(ex, "", FALSE, ctx, order_error)
         [] e.kind = "PriceOutOfRange" ->
              IF ~ctx.set THEN Stepped(ex, "", FALSE, ctx, <<>>)
              ELSE Stepped(ex, "", FALSE, ctx, order_error)

(* prev_tx_index before the first event. *)
NoTx == -1

(* The order context carried across the transaction boundary. *)
AtBoundaryKept(order_context, prev_tx_index, e) == order_context

(* The order context is reset at the transaction boundary. *)
AtBoundary(order_context, prev_tx_index, e) ==
    IF prev_tx_index # NoTx /\ prev_tx_index < e.tx_index THEN NoContext
    ELSE order_context

(* The error an event returned, built with the indices of the event. *)
Failure(err, e) ==
    IF err = "OrderContextExpected" THEN OrderContextExpected(e.tx_index, e.log_index)
    ELSE Result(err)

(* The event loop of apply_events: events are applied in order, in place,  *)
(* with the order context carried from event to event; the first error     *)
(* ends the loop.                                                          *)
RECURSIVE ApplyFrom(_, _, _, _, _, _)
ApplyFrom(ex, events, order_context, prev_tx_index, state_events, trapped) ==
    IF events = <<>> THEN [ex |-> ex, res |-> Done(state_events), trap |-> trapped]
    ELSE LET e == Head(events)
             ctx == AtBoundary(order_context, prev_tx_index, e)
             r == IF e.kind \in OrderKinds THEN apply_order_event(ex, e, ctx)
                  ELSE LET a == apply_raw_event(ex, e)
                       IN Stepped(a.ex, a.err, a.trap, ctx, <<>>)
         IN IF r.err # ""
            THEN [ex |-> r.ex, res |-> Failure(r.err, e), trap |-> trapped \/ r.trap]
            ELSE ApplyFrom(r.ex, Tail(events), r.ctx, e.tx_index,
                           state_events \o r.out, trapped \/ r.trap)

ApplyAll(ex, events) == ApplyFrom(ex, events, NoContext, NoTx, <<>>, FALSE)

(* apply_events without its out-of-order gate. *)
apply_events_ungated(ex, next_instant, events) ==
    IF InstantGE(ex.instant, next_instant)
    THEN [ex |-> ex, res |-> Result("AlreadyApplied"), trap |-> FALSE]
    ELSE LET r == ApplyAll(ex, events)
         IN IF r.res.kind # "Ok" THEN r
            ELSE [r EXCEPT !.ex.instant = next_instant]

apply_events(ex, next_instant, events) ==
    IF InstantGE(ex.instant, next_instant)
    THEN [ex |-> ex, res |-> Result("AlreadyApplied"), trap |-> FALSE]
    ELSE IF ex.instant.block_number + 1 < next_instant.block_number
    THEN [ex |-> ex,
          res |-> BlockOutOfOrder(ex.instant.block_number + 1, next_instant.block_number),
          trap |-> FALSE]
    ELSE LET r == ApplyAll(ex, events)
         IN IF r.res.kind # "Ok" THEN r
            ELSE [r EXCEPT !.ex.instant = next_instant]

(* The exchange as the snapshot builder leaves it: account 1 is tracked;   *)
(* with track_all_accounts unset the other accounts are not tracked, and   *)
(* the open interest read from the chain includes their long positions.    *)
InitialExchanges ==
    {[instant |-> StateInstant(0, ts),
      track_all_accounts |-> all,
      accounts |-> Put(EmptyMap, 1, NewAccount),
      perpetuals |-> [p \in TrackedPerpetuals |-> [open_interest |-> oi, orders |-> {}]]]
       : ts \in 0..MaxTimestamp, all \in BOOLEAN, oi \in 0..MaxPositionSize}

IdleExchange == CHOOSE ex \in InitialExchanges : TRUE

(* Batches carry block numbers up to one past the last block the model    *)
(* lets the exchange reach.                                                *)
Instants == {StateInstant(bn, ts) : bn \in 0..(MaxBlock + 1), ts \in 0..MaxTimestamp}

(* Raw events; a field the handler of a kind does not read is held fixed. *)
PositionEvents ==
    [kind : {"PositionOpened", "PositionInverted"},
     account : AccountIds, perp : TrackedPerpetuals, type : PositionTypes,
     size : PositionSizes, tx_index : {0}]
    \cup
    [kind : {"PositionClosed"},
     account : AccountIds, perp : TrackedPerpetuals, type : PositionTypes,
     size : {0}, tx_index : {0}]
    \cup
    [kind : {"PositionIncreased", "PositionDecreased"},
     account : AccountIds, perp : TrackedPerpetuals, type : {"Long"},
     size : PositionSizes, tx_index : {0}]

(* Liquidation credits, each leaving its account a balance of one unit. *)
CreditEvents ==
    [kind : {"AccountLiquidationCredit"},
     account : AccountIds, perp : TrackedPerpetuals, type : {"Long"},
     size : {1}, tx_index : {0}]

BatchesOver(alphabet) == UNION {[1..n -> alphabet] : n \in 0..MaxEvents}

(* A batch turned away at the gate is never read: the empty batch stands   *)
(* for every batch carrying that instant.                                  *)
TurnedAway(ex, next_instant) ==
    \/ InstantGE(ex.instant, next_instant)
    \/ ex.instant.block_number + 1 < next_instant.block_number

WithinBounds(ex) ==
    /\ ex.instant.block_number <= MaxBlock
    /\ \A p \in DOMAIN ex.perpetuals : ex.perpetuals[p].open_interest <= MaxOpenInterest

(* One call of apply_events; `kept` is what batchEvents keeps of the       *)
(* batch.                                                                  *)
ApplyKeeping(next_instant, events, kept) ==
    /\ applyResult.kind # "Panic"
    /\ \E r \in {apply_events(exchange, next_instant, events)} :
         /\ WithinBounds(r.ex)
         /\ exchange' = r.ex
         /\ batchInstant' = next_instant
         /\ batchEvents' = kept
         /\ applyResult' \in {r.res} \cup (IF r.trap THEN {Result("Panic")} ELSE {})

ApplyBatch(next_instant, events) == ApplyKeeping(next_instant, events, <<>>)

(* Batches of the events read through the order context.  A request names  *)
(* perpetual 1, which is tracked, or perpetual 2, which is not, and the    *)
(* order 1 or none; it asks at price 1; every event that reports a balance *)
(* reports one unit.                                                       *)
MaxContextEvents == 3
MaxTxIndex == 1

OrderPayloads ==
    [kind : {"OrderRequest"}, perp : {1, 2}, account : {1}, order_id : {0, 1}, size : {1},
     type : {1}, side : {"Ask"}, price : {1}]
    \cup
    [kind : {"OrderPlaced"}, perp : {1}, account : {1}, order_id : {1}, size : {1},
     type : {1}, side : {"Ask"}, price : {1}]
    \cup
    [kind : OrderKinds \ {"OrderRequest", "OrderPlaced"},
     perp : {1}, account : {1}, order_id : {0}, size : {1}, type : {1}, side : {"Ask"},
     price : {1}]

(* RawEvent::new; the request id of a request is taken from its            *)
(* transaction, so that requests of two transactions differ in it.         *)
RawEvent(payload, tx_index, log_index) ==
    [kind |-> payload.kind, perp |-> payload.perp, account |-> payload.account,
     order_id |-> payload.order_id, size |-> payload.size, type |-> payload.type,
     side |-> payload.side, price |-> payload.price,
     request_id |-> tx_index + 1, tx_index |-> tx_index, log_index |-> log_index]

(* The events of a block come in (tx_index, log_index) order. *)
TxIndexes(n) ==
    {t \in [1..n -> 0..MaxTxIndex] : \A i \in 1..n, j \in 1..n : i <= j => t[i] <= t[j]}

(* RawBlockEvents::new: the log index of an event is its place in the     *)
(* block.                                                                  *)
OrderBatch(payloads, t) == [i \in DOMAIN payloads |-> RawEvent(payloads[i], t[i], i - 1)]

(* The exchange as the snapshot builder leaves it, with order 1 resting in *)
(* perpetual 1 or not.                                                     *)
ContextExchanges ==
    {[instant |-> StateInstant(0, 0),
      track_all_accounts |-> FALSE,
      accounts |-> Put(EmptyMap, 1, NewAccount),
      perpetuals |-> [p \in TrackedPerpetuals |-> [open_interest |-> 0, orders |-> resting]]]
       : resting \in SUBSET {1}}


----------------------------------------------------------------------------
(* The exchange with the instants of its accounts and positions, the       *)
(* pending funding and the order book of its perpetuals, and the state     *)
(* events it emits (exchange.rs, account.rs, position.rs, perpetual.rs,    *)
(* l2_book.rs).  Perpetual.instant, mark prices and delta_pnl are left     *)
(* out; state_instant is kept.                                             *)

(* Option<T> *)
None == <<>>

Some(v) == <<v>>

(* Account::from_event, update_balance, update_locked_balance. *)
from_event(instant) ==
    [instant |-> instant, balance |-> 0, locked_balance |-> 0, positions |-> EmptyMap]

update_balance(acc, instant, balance) ==
    [acc EXCEPT !.balance = balance, !.instant = instant]

update_locked_balance(acc, instant, locked_balance) ==
    [acc EXCEPT !.locked_balance = locked_balance, !.instant = instant]

(* entry_price * size / maintenance_margin; the margins and entry prices   *)
(* of the model keep the quotient exact.                                   *)
Requirement(entry_price, size, maintenance_margin) ==
    (entry_price * size) \div maintenance_margin

(* Position::opened *)
opened(instant, type, entry_price, size, deposit, maintenance_margin) ==
    [instant |-> instant, funding_instant |-> instant, type |-> type,
     entry_price |-> entry_price, size |-> size, deposit |-> deposit, premium_pnl |-> 0,
     maintenance_margin_requirement |-> Requirement(entry_price, size, maintenance_margin)]

(* Position::apply_funding_payment: the position afterwards and the        *)
(* returned flag.                                                          *)
apply_funding_payment(pos, instant, payment_per_unit) ==
    IF InstantGE(pos.funding_instant, instant) THEN [pos |-> pos, applied |-> FALSE]
    ELSE [pos |-> [pos EXCEPT !.premium_pnl = @ + (IF pos.type = "Long" THEN -1 ELSE 1)
                                                    * payment_per_unit * pos.size,
                              !.instant = instant, !.funding_instant = instant],
          applied |-> TRUE]

(* Position::apply_maintenance_margin *)
apply_maintenance_margin(pos, instant, maintenance_margin) ==
    [pos EXCEPT !.maintenance_margin_requirement =
                    Requirement(pos.entry_price, pos.size, maintenance_margin),
                !.instant = instant]

(* StateEvents::order / account / perpetual / position: the kind of the    *)
(* event, its type, the entity it is about and the details it carries.     *)
StateEvents(class, type, subject, data) ==
    [class |-> class, type |-> type, subject |-> subject, data |-> data]

(* Perpetual::update_funding *)
update_funding(perp, funding_payment, block_num) ==
    [perp EXCEPT !.next_funding_payment = Some(funding_payment),
                 !.next_funding_event_block = Some(block_num)]

(* Perpetual::update_state_instant: the perpetual afterwards and the       *)
(* events returned.                                                        *)
update_state_instant(id, perp, instant) ==
    [perp |-> [perp EXCEPT !.state_instant = instant],
     events |-> IF /\ perp.next_funding_payment # None
                   /\ perp.next_funding_event_block # None
                   /\ perp.next_funding_event_block[1] = instant.block_number
                THEN <<StateEvents("perpetual", "FundingEvent", id,
                                   perp.next_funding_payment[1])>>
                ELSE <<>>]

(* L3Level and L2Book of l2_book.rs: a level maps (block number, order id) *)
(* to the order; a side maps prices to levels.                             *)
NewL3Level == [orders |-> EmptyMap, cached_size |-> 0, cached_num_orders |-> 0]

NewL2Book == [asks |-> EmptyMap, bids |-> EmptyMap, order_index |-> EmptyMap]

(* L3Order::key *)
key(o) == <<o.instant.block_number, o.order_id>>

(* L3Level::add_order, update_order, remove_order *)
level_add_order(level, o) ==
    [orders |-> Put(level.orders, key(o), o),
     cached_size |-> level.cached_size + o.size,
     cached_num_orders |-> level.cached_num_orders + 1]

level_update_order(level, k, o) ==
    IF k \in DOMAIN level.orders
    THEN [level EXCEPT !.cached_size = (@ - level.orders[k].size) + o.size,
                       !.orders[k] = o]
    ELSE level

level_remove_order(level, k) ==
    IF k \in DOMAIN level.orders
    THEN [orders |-> Drop(level.orders, k),
          cached_size |-> level.cached_size - level.orders[k].size,
          cached_num_orders |-> level.cached_num_orders - 1]
    ELSE level

(* L2Book::add_order (l2_book.rs) *)
l2_add_order(b, o) ==
    LET levels == SideLevels(b, o.side)
        level == IF o.price \in DOMAIN levels THEN levels[o.price] ELSE NewL3Level
    IN [WithLevels(b, o.side, Put(levels, o.price, level_add_order(level, o)))
          EXCEPT !.order_index = Put(@, o.order_id, <<o.price, o.instant.block_number>>)]

(* L2Book::update_order (l2_book.rs) *)
l2_update_order(b, o) ==
    IF o.order_id \notin DOMAIN b.order_index THEN b
    ELSE LET indexed_price == b.order_index[o.order_id][1]
             block_number == b.order_index[o.order_id][2]
             levels == SideLevels(b, o.side)
         IN IF indexed_price \in DOMAIN levels
            THEN WithLevels(b, o.side,
                            [levels EXCEPT ![indexed_price] =
                                level_update_order(@, <<block_number, o.order_id>>, o)])
            ELSE b

(* L2Book::remove_order (l2_book.rs) *)
l2_remove_order(b, o) ==
    IF o.order_id \notin DOMAIN b.order_index THEN b
    ELSE LET indexed_price == b.order_index[o.order_id][1]
             block_number == b.order_index[o.order_id][2]
             unindexed == [b EXCEPT !.order_index = Drop(@, o.order_id)]
             levels == SideLevels(b, o.side)
         IN IF indexed_price \in DOMAIN levels
            THEN LET level == level_remove_order(levels[indexed_price],
                                                 <<block_number, o.order_id>>)
                 IN WithLevels(unindexed, o.side,
                               IF level.cached_num_orders = 0
                               THEN Drop(levels, indexed_price)
                               ELSE [levels EXCEPT ![indexed_price] = level])
            ELSE unindexed

(* Perpetual::add_order, update_order, remove_order: the perpetual         *)
(* afterwards and the error returned ("" for none).                        *)
perp_add_order(perp, o) ==
    [perp EXCEPT !.l2_book = l2_add_order(@, o), !.orders = Put(@, o.order_id, o)]

perp_update_order(perp, o) ==
    IF o.order_id \notin DOMAIN perp.orders THEN [perp |-> perp, err |-> "OrderNotFound"]
    ELSE LET prev == perp.orders[o.order_id]
         IN [perp |-> [perp EXCEPT
                         !.l2_book = IF prev.price # o.price
                                     THEN l2_add_order(l2_remove_order(@, prev), o)
                                     ELSE l2_update_order(@, o),
                         !.orders = Put(@, o.order_id, o)],
             err |-> ""]

perp_remove_order(perp, order_id) ==
    IF order_id \notin DOMAIN perp.orders THEN [perp |-> perp, err |-> "OrderNotFound"]
    ELSE [perp |-> [perp EXCEPT !.l2_book = l2_remove_order(@, perp.orders[order_id]),
                                !.orders = Drop(@, order_id)],
          err |-> ""]

(* The codes From<u8> for RequestType knows (any other one runs into      *)
(* unreachable!()), and those From<RequestType> for OrderType knows:       *)
(* OpenLong, OpenShort, CloseLong, CloseShort.                             *)
RequestTypes == 0..6

OrderTypes == 0..3

(* Order::placed and Order::updated; the side stands for the order type,   *)
(* which the caller has found to be one of OrderTypes.                     *)
placed(instant, ctx, order_id, size) ==
    [instant |-> instant, order_id |-> order_id, side |-> ctx.side,
     account_id |-> ctx.account_id, price |-> ctx.price, size |-> size]

updated(order, instant, price, size) ==
    [order EXCEPT !.instant = instant,
                  !.price = IF price = None THEN @ ELSE price[1],
                  !.size = IF size = None THEN @ ELSE size[1]]

(* An ensure_account that does not ask whether all accounts are tracked. *)
EnsureAccountAlways(ex, id) ==
    IF id \notin DOMAIN ex.accounts
    THEN [ex EXCEPT !.accounts = Put(@, id, from_event(StateInstant(0, 0)))]
    ELSE ex

(* Exchange::ensure_account for accounts that carry their instant. *)
EnsureAccount(ex, id) ==
    IF ex.track_all_accounts /\ id \notin DOMAIN ex.accounts
    THEN [ex EXCEPT !.accounts = Put(@, id, from_event(StateInstant(0, 0)))]
    ELSE ex

(* update_locked_balance and update_balance of an account the exchange     *)
(* holds, with the two account events emitted for them.                    *)
Settle(ex, instant, id, e) ==
    IF id \in DOMAIN ex.accounts
    THEN [ex |-> [ex EXCEPT !.accounts[id] =
                      update_balance(update_locked_balance(@, instant, e.locked_balance),
                                     instant, e.balance)],
          out |-> <<StateEvents("account", "LockedBalanceUpdated", id, e.locked_balance),
                    StateEvents("account", "BalanceUpdated", id, e.balance)>>]
    ELSE [ex |-> ex, out |-> <<>>]

(* update_open_interest of a long position with the perpetual event        *)
(* emitted for it; nothing for a short one.                                *)
Interest(ex, long, perp, prev_size, new_size) ==
    IF long
    THEN LET changed == update_open_interest(ex.perpetuals[perp], prev_size, new_size)
         IN [ex |-> [ex EXCEPT !.perpetuals[perp] = changed],
             out |-> <<StateEvents("perpetual", "OpenInterestUpdated", perp,
                                   changed.open_interest)>>,
             trap |-> InterestTraps(ex.perpetuals[perp], prev_size)]
    ELSE [ex |-> ex, out |-> <<>>, trap |-> FALSE]

(* The position handlers that go through Exchange::position: the position  *)
(* takes the entry price, size and deposit of the event, its premium PnL   *)
(* is reset and its margin requirement derived again.                      *)
Repositioned(pos, instant, e, maintenance_margin) ==
    apply_maintenance_margin(
        [pos EXCEPT !.entry_price = e.price, !.size = e.size, !.deposit = e.deposit,
                    !.premium_pnl = 0, !.instant = instant, !.funding_instant = instant],
        instant, maintenance_margin)

(* PositionInverted emitting an Opened event in place of Inverted. *)
InvertedAsOpened(ex, instant, e, ctx) ==
    LET prev == ex.accounts[e.account].positions[e.perp]
        pos == Repositioned([prev EXCEPT !.type = e.type], instant, e,
                            ex.perpetuals[e.perp].maintenance_margin)
        ex1 == [ex EXCEPT !.accounts[e.account].positions[e.perp] = pos]
        oi == IF pos.type = "Long" THEN Interest(ex1, TRUE, e.perp, 0, pos.size)
              ELSE Interest(ex1, TRUE, e.perp, prev.size, 0)
    IN Stepped(oi.ex, "", oi.trap, ctx,
               <<StateEvents("position", "Closed", <<e.account, e.perp>>,
                             [type |-> prev.type, entry_price |-> prev.entry_price,
                              exit_price |-> pos.entry_price, size |-> prev.size]),
                 StateEvents("position", "Opened", <<e.account, e.perp>>,
                             [type |-> pos.type, entry_price |-> pos.entry_price,
                              size |-> pos.size, deposit |-> pos.deposit])>>
               \o oi.out)

(* PositionInverted, for a position that Exchange::position found. *)
Inverted(ex, instant, e, ctx) ==
    LET prev == ex.accounts[e.account].positions[e.perp]
        pos == Repositioned([prev EXCEPT !.type = e.type], instant, e,
                            ex.perpetuals[e.perp].maintenance_margin)
        ex1 == [ex EXCEPT !.accounts[e.account].positions[e.perp] = pos]
        oi == IF pos.type = "Long" THEN Interest(ex1, TRUE, e.perp, 0, pos.size)
              ELSE Interest(ex1, TRUE, e.perp, prev.size, 0)
    IN Stepped(oi.ex, "", oi.trap, ctx,
               <<StateEvents("position", "Closed", <<e.account, e.perp>>,
                             [type |-> prev.type, entry_price |-> prev.entry_price,
                              exit_price |-> pos.entry_price, size |-> prev.size]),
                 StateEvents("position", "Inverted", <<e.account, e.perp>>,
                             [type |-> pos.type, entry_price |-> pos.entry_price,
                              prev_size |-> prev.size, new_size |-> pos.size,
                              deposit |-> pos.deposit])>>
               \o oi.out)

(* PositionIncreased, for a position that Exchange::position found. *)
Increased(ex, instant, e, ctx) ==
    LET prev == ex.accounts[e.account].positions[e.perp]
        pos == Repositioned(prev, instant, e, ex.perpetuals[e.perp].maintenance_margin)
        ex1 == [ex EXCEPT !.accounts[e.account].positions[e.perp] = pos]
        oi == Interest(ex1, pos.type = "Long", e.perp, prev.size, pos.size)
    IN Stepped(oi.ex, "", oi.trap, ctx,
               <<StateEvents("position", "Increased", <<e.account, e.perp>>,
                             [entry_price |-> pos.entry_price, prev_size |-> prev.size,
                              new_size |-> pos.size, deposit |-> pos.deposit])>>
               \o oi.out)

(* MakerOrderFilled, for an order that Exchange::order found. *)
MakerFilled(ex, instant, e, ctx) ==
    LET perp == ex.perpetuals[e.perp]
        order == perp.orders[e.order_id]
        priced == [perp EXCEPT !.last_price = e.price]
        rests == order.size > e.size
        filled == IF rests
                  THEN perp_update_order(
                           priced, updated(order, instant, None, Some(order.size - e.size))).perp
                  ELSE perp_remove_order(priced, order.order_id).perp
    IN [ex |-> [ex EXCEPT !.perpetuals[e.perp] = filled],
        out |-> <<StateEvents("order", IF rests THEN "Updated" ELSE "Removed",
                              <<e.perp, order.order_id>>,
                              IF rests THEN order.size - e.size ELSE 0),
                  StateEvents("order", "Filled", <<e.perp, order.order_id>>, e.size),
                  StateEvents("perpetual", "LastPriceUpdated", e.perp, e.price)>>]

(* Exchange::apply_raw_event with the instant of the batch: the exchange   *)
(* afterwards, the error returned, the order context afterwards and the    *)
(* state events emitted for the raw event.                                 *)
ApplyRawEvent(ex0, instant, e, ctx) ==
    LET ex == IF e.kind \in {"CollateralDeposit", "PositionOpened", "PositionUnwound",
                             "PositionIncreased", "PositionInverted"}
              THEN EnsureAccount(ex0, e.account)
              ELSE ex0
        tracked == ctx.perpetual_id \in DOMAIN ex.perpetuals
        must_ctx == Stepped(ex, "OrderContextExpected", FALSE, ctx, <<>>)
    IN CASE e.kind = "AccountCreated" ->
              IF ex.track_all_accounts
              THEN Stepped([ex EXCEPT !.accounts = Put(@, e.account, from_event(instant))],
                           "", FALSE, ctx,
                           <<StateEvents("account", "Created", e.account, e.account)>>)
              ELSE Stepped(ex, "", FALSE, ctx, <<>>)
         [] e.kind = "CollateralDeposit" ->
              IF e.account \in DOMAIN ex.accounts
              THEN Stepped([ex EXCEPT !.accounts[e.account] =
                                          update_balance(@, instant, e.balance)],
                           "", FALSE, ctx,
                           <<StateEvents("account", "BalanceUpdated", e.account, e.balance)>>)
              ELSE Stepped(ex, "", FALSE, ctx, <<>>)
         [] e.kind = "FundingEventCompleted" ->
              IF e.perp \in DOMAIN ex.perpetuals
              THEN Stepped([ex EXCEPT !.perpetuals[e.perp] =
                                          update_funding(@, e.payment, e.block)],
                           "", FALSE, ctx, <<>>)
              ELSE Stepped(ex, "", FALSE, ctx, <<>>)
         [] e.kind = "MaintenanceMarginFractionUpdated" ->
              IF e.perp \in DOMAIN ex.perpetuals
              THEN Stepped([ex EXCEPT !.perpetuals[e.perp].maintenance_margin = e.margin],
                           "", FALSE, ctx,
                           <<StateEvents("perpetual", "MaintenanceMarginFractionUpdated",
                                         e.perp, e.margin)>>)
              ELSE Stepped(ex, "", FALSE, ctx, <<>>)
         [] e.kind = "MakerOrderFilled" ->
              IF e.perp \in DOMAIN ex.perpetuals
                 /\ e.order_id \notin DOMAIN ex.perpetuals[e.perp].orders
              THEN Stepped(ex0, "OrderNotFound", FALSE, ctx, <<>>)
              ELSE LET filled == IF e.perp \in DOMAIN ex.perpetuals
                                 THEN MakerFilled(ex0, instant, e, ctx)
                                 ELSE [ex |-> ex0, out |-> <<>>]
                       settled == Settle(EnsureAccount(filled.ex, e.account), instant,
                                         e.account, e)
                   IN Stepped(settled.ex, "", FALSE, ctx, filled.out \o settled.out)
         [] e.kind = "OrderRequest" ->
              IF e.type \notin RequestTypes THEN Stepped(ex, "Panic", FALSE, ctx, <<>>)
              ELSE Stepped(ex, "", FALSE, OrderContextFrom(e), <<>>)
         [] e.kind = "OrderBatchCompleted" -> Stepped(ex, "", FALSE, NoContext, <<>>)
         [] e.kind = "OrderPlaced" ->
              IF ~ctx.set THEN must_ctx
              ELSE IF tracked /\ ctx.type \notin OrderTypes
              THEN Stepped(ex, "Panic", FALSE, ctx, <<>>)
              ELSE LET order == placed(instant, ctx, e.order_id, e.size)
                       added == IF tracked
                                THEN [ex EXCEPT !.perpetuals[ctx.perpetual_id] =
                                                    perp_add_order(@, order)]
                                ELSE ex
                       settled == Settle(added, instant, ctx.account_id, e)
                   IN Stepped(settled.ex, "", FALSE, ctx,
                              (IF tracked
                               THEN <<StateEvents("order", "Placed",
                                                  <<ctx.perpetual_id, e.order_id>>,
                                                  [price |-> order.price,
                                                   size |-> order.size])>>
                               ELSE <<>>) \o settled.out)
         [] e.kind = "OrderChanged" ->
              IF ~ctx.set THEN must_ctx
              ELSE IF tracked /\ ctx.order_id \notin DOMAIN ex.perpetuals[ctx.perpetual_id].orders
              THEN Stepped(ex, "OrderNotFound", FALSE, ctx, <<>>)
              ELSE LET order == ex.perpetuals[ctx.perpetual_id].orders[ctx.order_id]
                       price_update == IF order.price # e.price THEN Some(e.price) ELSE None
                       size_update == IF order.size # e.size THEN Some(e.size) ELSE None
                       changed ==
                           IF tracked
                           THEN [ex EXCEPT !.perpetuals[ctx.perpetual_id] =
                                    perp_update_order(
                                        @, updated(order, instant, price_update,
                                                   size_update)).perp]
                           ELSE ex
                       settled == Settle(changed, instant, ctx.account_id, e)
                   IN Stepped(settled.ex, "", FALSE, ctx,
                              (IF tracked
                               THEN <<StateEvents("order", "Updated",
                                                  <<ctx.perpetual_id, ctx.order_id>>,
                                                  [price |-> price_update,
                                                   size |-> size_update])>>
                               ELSE <<>>) \o settled.out)
         [] e.kind = "OrderCancelled" ->
              IF ~ctx.set THEN must_ctx
              ELSE IF tracked /\ ctx.order_id \notin DOMAIN ex.perpetuals[ctx.perpetual_id].orders
              THEN Stepped(ex, "OrderNotFound", FALSE, ctx, <<>>)
              ELSE LET removed ==
                           IF tracked
                           THEN [ex EXCEPT !.perpetuals[ctx.perpetual_id] =
                                               perp_remove_order(@, ctx.order_id).perp]
                           ELSE ex
                       settled == Settle(removed, instant, ctx.account_id, e)
                   IN Stepped(settled.ex, "", FALSE, ctx,
                              (IF tracked
                               THEN <<StateEvents("order", "Removed",
                                                  <<ctx.perpetual_id, ctx.order_id>>, 0)>>
                               ELSE <<>>) \o settled.out)
         [] e.kind = "PositionOpened" ->
              IF e.account \notin DOMAIN ex.accounts \/ e.perp \notin DOMAIN ex.perpetuals
              THEN Stepped(ex, "", FALSE, ctx, <<>>)
              ELSE LET pos == opened(instant, e.type, e.price, e.size, e.deposit,
                                     ex.perpetuals[e.perp].maintenance_margin)
                       oi == Interest(ex, pos.type = "Long", e.perp, 0, pos.size)
                   IN Stepped([oi.ex EXCEPT !.accounts[e.account].positions =
                                                Put(@, e.perp, pos)],
                              "", oi.trap, ctx,
                              <<StateEvents("position", "Opened", <<e.account, e.perp>>,
                                            [type |-> pos.type,
                                             entry_price |-> pos.entry_price,
                                             size |-> pos.size,
                                             deposit |-> pos.deposit])>> \o oi.out)
         [] e.kind = "PositionUnwound" ->
              IF e.account \notin DOMAIN ex.accounts \/ e.perp \notin DOMAIN ex.perpetuals
              THEN Stepped(ex, "", FALSE, ctx, <<>>)
              ELSE IF e.perp \notin DOMAIN ex.accounts[e.account].positions
              THEN Stepped(ex, "PositionNotFound", FALSE, ctx, <<>>)
              ELSE LET pos == ex.accounts[e.account].positions[e.perp]
                       paid == [ex EXCEPT !.accounts[e.account] =
                                   update_balance([@ EXCEPT !.positions = Drop(@, e.perp)],
                                                  instant, e.balance)]
                       oi == Interest(paid, pos.type = "Long", e.perp, pos.size, 0)
                   IN Stepped(oi.ex, "", oi.trap, ctx,
                              <<StateEvents("position", "Unwound", <<e.account, e.perp>>,
                                            [type |-> pos.type,
                                             entry_price |-> pos.entry_price,
                                             size |-> pos.size]),
                                StateEvents("account", "BalanceUpdated", e.account,
                                            e.balance)>> \o oi.out)
         [] e.kind \in {"PositionIncreased", "PositionInverted"} ->
              IF e.account \notin DOMAIN ex.accounts THEN Stepped(ex, "", FALSE, ctx, <<>>)
              ELSE IF e.perp \notin DOMAIN ex.accounts[e.account].positions
              THEN Stepped(ex, "PositionNotFound", FALSE, ctx, <<>>)
              ELSE IF e.perp \notin DOMAIN ex.perpetuals
              THEN Stepped(ex, "Panic", FALSE, ctx, <<>>)
              ELSE IF e.kind = "PositionIncreased" THEN Increased(ex, instant, e, ctx)
              ELSE Inverted(ex, instant, e, ctx)

(* A finite set of ids as the sequence of its elements in ascending order. *)
Ascending(S) ==
    CHOOSE q \in [1..Cardinality(S) -> S] :
       \A i, j \in 1..Cardinality(S) : i < j => q[i] < q[j]

(* Exchange::apply_state_event: the exchange afterwards and the position   *)
(* events returned.  The accounts are visited in ascending order of their  *)
(* ids.                                                                    *)
apply_state_event(ex, instant, event) ==
    LET p == event.subject
        holders == {a \in DOMAIN ex.accounts : p \in DOMAIN ex.accounts[a].positions}
    IN CASE event.class = "perpetual" /\ event.type = "FundingEvent" ->
              LET paid(a) == apply_funding_payment(ex.accounts[a].positions[p], instant,
                                                   event.data)
                  ids == Ascending({a \in holders : paid(a).applied})
              IN [ex |-> [ex EXCEPT !.accounts =
                             [a \in DOMAIN @ |->
                                IF a \in holders
                                THEN [@[a] EXCEPT !.positions[p] = paid(a).pos]
                                ELSE @[a]]],
                  out |-> [i \in 1..Len(ids) |->
                             StateEvents("position", "UnrealizedPnLUpdated", <<ids[i], p>>,
                                         paid(ids[i]).pos.premium_pnl)]]
         [] event.class = "perpetual" /\ event.type = "MaintenanceMarginFractionUpdated" ->
              LET margined(a) == apply_maintenance_margin(ex.accounts[a].positions[p],
                                                          instant, event.data)
                  ids == Ascending(holders)
              IN [ex |-> [ex EXCEPT !.accounts =
                             [a \in DOMAIN @ |->
                                IF a \in holders
                                THEN [@[a] EXCEPT !.positions[p] = margined(a)]
                                ELSE @[a]]],
                  out |-> [i \in 1..Len(ids) |->
                             StateEvents("position", "MaintenanceMarginUpdated",
                                         <<ids[i], p>>,
                                         margined(ids[i]).maintenance_margin_requirement)]]
         [] OTHER -> [ex |-> ex, out |-> <<>>]

(* The event loop of apply_events at the instant of the batch: the state   *)
(* events of a raw event are kept together with the raw event they were    *)
(* made from; the first error ends the loop.                               *)
RECURSIVE ApplyEach(_, _, _, _, _, _, _)
ApplyEach(ex, instant, events, order_context, prev_tx_index, state_events, trapped) ==
    IF events = <<>> THEN [ex |-> ex, res |-> Done(state_events), trap |-> trapped]
    ELSE LET e == Head(events)
             r == ApplyRawEvent(ex, instant, e, AtBoundary(order_context, prev_tx_index, e))
         IN IF r.err # ""
            THEN [ex |-> r.ex, res |-> Failure(r.err, e), trap |-> trapped \/ r.trap]
            ELSE ApplyEach(r.ex, instant, Tail(events), r.ctx, e.tx_index,
                           IF r.out = <<>> THEN state_events
                           ELSE Append(state_events, [of |-> Some(e), events |-> r.out]),
                           trapped \/ r.trap)

(* The second pass of apply_events over the events that the commit of the  *)
(* instant produced.                                                       *)
RECURSIVE SecondPass(_, _, _, _)
SecondPass(ex, instant, perp_events, state_events) ==
    IF perp_events = <<>> THEN [ex |-> ex, state_events |-> state_events]
    ELSE LET r == apply_state_event(ex, instant, Head(perp_events))
         IN SecondPass(r.ex, instant, Tail(perp_events),
                       IF r.out = <<>> THEN state_events
                       ELSE Append(state_events, [of |-> None, events |-> r.out]))

(* The events of update_state_instant over the perpetuals `ids`. *)
RECURSIVE CommitEvents(_, _, _)
CommitEvents(ex, instant, ids) ==
    IF ids = <<>> THEN <<>>
    ELSE update_state_instant(Head(ids), ex.perpetuals[Head(ids)], instant).events
         \o CommitEvents(ex, instant, Tail(ids))

(* The commit of the instant on the exchange and on every perpetual. *)
CommitInstant(ex, next_instant) ==
    [ex EXCEPT !.instant = next_instant,
               !.perpetuals = [p \in DOMAIN @ |->
                                 update_state_instant(p, @[p], next_instant).perp]]

(* The end of apply_events once the event loop has returned r: an error is *)
(* returned as it is; otherwise the instant is committed and the second    *)
(* pass runs over perp_events, the events of that commit.                  *)
AfterLoop(r, next_instant, perp_events) ==
    IF r.res.kind # "Ok" THEN r
    ELSE LET second == SecondPass(CommitInstant(r.ex, next_instant), next_instant,
                                  perp_events,
                                  r.res.events
                                  \o [i \in 1..Len(perp_events) |->
                                        [of |-> None, events |-> <<perp_events[i]>>]])
         IN [ex |-> second.ex, res |-> Done(second.state_events), trap |-> r.trap]

(* The event loop of apply_events followed by its end. *)
Looped(r, next_instant) ==
    AfterLoop(r, next_instant,
              IF r.res.kind # "Ok" THEN <<>>
              ELSE CommitEvents(r.ex, next_instant, Ascending(DOMAIN r.ex.perpetuals)))

(* Exchange::apply_events with both passes: the gate, the event loop, the  *)
(* commit of the instant on the exchange and on every perpetual, and the   *)
(* second pass.  The perpetuals are visited in ascending order of their    *)
(* ids.                                                                    *)
ApplyEvents(ex, next_instant, events) ==
    IF InstantGE(ex.instant, next_instant)
    THEN [ex |-> ex, res |-> Result("AlreadyApplied"), trap |-> FALSE]
    ELSE IF ex.instant.block_number + 1 < next_instant.block_number
    THEN [ex |-> ex,
          res |-> BlockOutOfOrder(ex.instant.block_number + 1, next_instant.block_number),
          trap |-> FALSE]
    ELSE Looped(ApplyEach(ex, next_instant, events, NoContext, NoTx, <<>>, FALSE),
                next_instant)

(* One call of apply_events with both passes; `kept` is what batchEvents   *)
(* keeps of the batch.                                                     *)
ApplyRecordingAs(next_instant, events, kept) ==
    /\ applyResult.kind # "Panic"
    /\ \E r \in {ApplyEvents(exchange, next_instant, events)} :
         /\ WithinBounds(r.ex)
         /\ exchange' = r.ex
         /\ batchInstant' = next_instant
         /\ batchEvents' = kept
         /\ applyResult' \in {r.res} \cup (IF r.trap THEN {Result("Panic")} ELSE {})

ApplyRecording(next_instant, events) == ApplyRecordingAs(next_instant, events, events)

(* A perpetual as the snapshot builder leaves it: no funding pending and   *)
(* an empty book, unless given otherwise.                                  *)
Perpetual(instant, open_interest, maintenance_margin) ==
    [state_instant |-> instant, open_interest |-> open_interest, last_price |-> 0,
     maintenance_margin |-> maintenance_margin,
     next_funding_payment |-> None, next_funding_event_block |-> None,
     orders |-> EmptyMap, l2_book |-> NewL2Book]

(* The exchange as the snapshot builder leaves it at block 0: account 1 is *)
(* tracked, with no position or with one of `size` at entry price 2 in     *)
(* perpetual 1, whose open interest is that of the tracked long position.  *)
HoldingExchanges(all, types, size) ==
    LET at == StateInstant(0, 0)
    IN {[instant |-> at,
         track_all_accounts |-> all,
         accounts |-> Put(EmptyMap, 1, [from_event(at) EXCEPT !.positions = held]),
         perpetuals |-> Put(EmptyMap, 1,
                            Perpetual(at, IF held # EmptyMap /\ held[1].type = "Long"
                                          THEN size ELSE 0, 1))]
          : held \in {EmptyMap} \cup {Put(EmptyMap, 1, opened(at, type, 2, size, 1, 1))
                                        : type \in types}}

(* Funding of perpetual 1 completed for block 0, 1, ...; a short position  *)
(* of account 1 opened at entry price 2 or increased to entry price 4; the *)
(* maintenance margin set to 1 or 2; a deposit of account 1.               *)
FundingEvents ==
    [kind : {"FundingEventCompleted"}, perp : {1}, payment : {1}, block : 0..MaxBlock,
     tx_index : {0}]
    \cup
    [kind : {"PositionOpened"}, account : {1}, perp : {1}, type : {"Short"},
     price : {2}, size : {1}, deposit : {1}, tx_index : {0}]
    \cup
    [kind : {"PositionIncreased"}, account : {1}, perp : {1},
     price : {4}, size : {1}, deposit : {1}, tx_index : {0}]
    \cup
    [kind : {"MaintenanceMarginFractionUpdated"}, perp : {1}, margin : {1, 2},
     tx_index : {0}]
    \cup
    [kind : {"CollateralDeposit"}, account : {1}, balance : {1}, tx_index : {0}]

----------------------------------------------------------------------------
(* Raw block stream (stream.rs): stream::unfold over (provider, block_num). *)

MaxHead == 3
MaxLogs == 1
MaxFrom == 2
MaxItems == 3

(* Failures of a provider call, as DexError::from maps them. *)
SourceErrors == {"Transport", "InvalidRequest"}

Reply(kind, value) == [kind |-> kind, value |-> value]

Pending == Reply("Pending", 0)

(* Timestamp the logs of block n carry. *)
BlockTimestamp(n) == n

Item(kind, block_number, block_timestamp, logs) ==
    [kind |-> kind, block_number |-> block_number,
     block_timestamp |-> block_timestamp, logs |-> logs]

ErrItem(kind) == Item(kind, 0, 0, 0)

(* try_join! completes on the first failure or when both calls succeeded. *)
Resolved(head, logs) ==
    \/ head.kind \in SourceErrors
    \/ logs.kind \in SourceErrors
    \/ head.kind = "Ok" /\ logs.kind = "Ok"

(* A loop body that reports a block not available yet as a transport       *)
(* failure.                                                                *)
PollResultSurfaced(block_num, head, logs, decodes) ==
    IF head.kind \in SourceErrors THEN ErrItem(head.kind)
    ELSE IF logs.kind \in SourceErrors THEN ErrItem(logs.kind)
    ELSE IF head.value < block_num THEN ErrItem("Transport")
    ELSE IF logs.value > 0 /\ ~decodes THEN ErrItem("Decode")
    ELSE Item("Ok", block_num,
              IF logs.value > 0 THEN BlockTimestamp(block_num) ELSE 0,
              logs.value)

(* The result of one pass of the loop body; `decodes` tells whether every  *)
(* log of the reply decodes as an exchange event.                          *)
PollResult(block_num, head, logs, decodes) ==
    IF head.kind \in SourceErrors THEN ErrItem(head.kind)
    ELSE IF logs.kind \in SourceErrors THEN ErrItem(logs.kind)
    ELSE IF head.value < block_num THEN ErrItem("InvalidRequest")
    ELSE IF logs.value > 0 /\ ~decodes THEN ErrItem("Decode")
    ELSE Item("Ok", block_num,
              IF logs.value > 0 THEN BlockTimestamp(block_num) ELSE 0,
              logs.value)

(* A cursor that moves on whatever the result was. *)
NextCursorEager(result, block_num) == block_num + 1

(* The unfold state handed on with a yielded item. *)
NextCursor(result, block_num) ==
    IF result.kind = "Ok" THEN block_num + 1 ELSE block_num

ChainGrows ==
    /\ Len(chain) < MaxHead
    /\ \E n \in 0..MaxLogs : chain' = Append(chain, n)
    /\ UNCHANGED <<from, cursor, headReply, logsReply, pc, yielded>>

GetBlockNumber ==
    /\ pc = "query"
    /\ headReply = Pending
    /\ logsReply.kind \notin SourceErrors
    /\ headReply' \in {Reply("Ok", Len(chain))} \cup {Reply(e, 0) : e \in SourceErrors}
    /\ UNCHANGED <<chain, from, cursor, logsReply, pc, yielded>>

(* A node asked for the logs of a block it does not have yet answers with  *)
(* an empty list or with a failure.                                        *)
GetLogs ==
    /\ pc = "query"
    /\ logsReply = Pending
    /\ headReply.kind \notin SourceErrors
    /\ logsReply' \in {Reply("Ok", IF cursor <= Len(chain) THEN chain[cursor] ELSE 0)}
                        \cup {Reply(e, 0) : e \in SourceErrors}
    /\ UNCHANGED <<chain, from, cursor, headReply, pc, yielded>>

(* InvalidRequest: nothing is yielded, the loop sleeps and polls again. *)
Retry ==
    /\ pc = "query"
    /\ Resolved(headReply, logsReply)
    /\ PollResult(cursor, headReply, logsReply, TRUE).kind = "InvalidRequest"
    /\ pc' = "sleep"
    /\ UNCHANGED <<chain, from, cursor, headReply, logsReply, yielded>>

Sleep ==
    /\ pc = "sleep"
    /\ pc' = "query"
    /\ headReply' = Pending
    /\ logsReply' = Pending
    /\ UNCHANGED <<chain, from, cursor, yielded>>

(* Any other result is yielded together with the next unfold state. *)
Yield ==
    /\ pc = "query"
    /\ Resolved(headReply, logsReply)
    /\ Len(yielded) < MaxItems
    /\ \E decodes \in BOOLEAN :
         \E result \in {PollResult(cursor, headReply, logsReply, decodes)} :
            /\ result.kind # "InvalidRequest"
            /\ yielded' = Append(yielded, result)
            /\ cursor' = NextCursor(result, cursor)
    /\ headReply' = Pending
    /\ logsReply' = Pending
    /\ UNCHANGED <<chain, from, pc>>

----------------------------------------------------------------------------
(* Trade correlator (fill/listener.rs): TradeProcessor turns the raw       *)
(* events of a block into the taker trades of that block.                  *)

MaxTradeEvents == 4
MaxEarlierEvents == 2
MaxTradeBlocks == 2

(* The perpetuals the NormalizationConfig has converters for. *)
ConfiguredPerpetuals == {1}

(* RequestType::try_side of the request type with the given code:          *)
(* OpenLong 0, OpenShort 1, CloseLong 2, CloseShort 3 have a side; Cancel  *)
(* 4, IncreasePositionCollateral 5 and Change 6 have none.                 *)
try_side(type) ==
    IF type \in {0, 3} THEN Some("Bid")
    ELSE IF type \in {1, 2} THEN Some("Ask")
    ELSE None

(* TradeProcessor::new *)
NewTradeProcessor ==
    [order_context |-> None, pending_maker_fills |-> <<>>, prev_tx_index |-> NoTx]

(* TradeProcessor::handle_maker_fill *)
handle_maker_fill(tp, e) ==
    IF e.perp \in ConfiguredPerpetuals
    THEN [tp EXCEPT !.pending_maker_fills =
                       Append(@, [tx_hash |-> e.tx_hash, log_index |-> e.log_index,
                                  perpetual_id |-> e.perp,
                                  maker_account_id |-> e.account,
                                  maker_order_id |-> e.order_id])]
    ELSE tp

(* The MakerFill of a TakerTrade, made of a PendingMakerFill. *)
MakerFill(m) ==
    [log_index |-> m.log_index, maker_account_id |-> m.maker_account_id,
     maker_order_id |-> m.maker_order_id]

(* TradeProcessor::handle_taker_fill: the processor afterwards and the     *)
(* trade it returns, if any.                                               *)
handle_taker_fill(tp, e) ==
    LET makers == tp.pending_maker_fills
        taken == [tp EXCEPT !.pending_maker_fills = <<>>]
    IN IF makers = <<>> THEN [tp |-> taken, trade |-> None]
       ELSE IF tp.order_context = None THEN [tp |-> taken, trade |-> None]
       ELSE IF \E i \in DOMAIN makers : makers[i].tx_hash # e.tx_hash
       THEN [tp |-> taken, trade |-> None]
       ELSE [tp |-> taken,
             trade |-> Some([tx_hash |-> e.tx_hash, tx_index |-> e.tx_index,
                             perpetual_id |-> makers[1].perpetual_id,
                             taker_account_id |-> tp.order_context[1].account_id,
                             taker_side |-> tp.order_context[1].side,
                             taker_fee |-> e.fee,
                             maker_fills |-> [i \in DOMAIN makers |-> MakerFill(makers[i])]])]

(* TradeProcessor::process_event *)
process_event(tp, e) ==
    IF e.kind = "OrderRequest"
    THEN [tp |-> IF try_side(e.type) # None
                 THEN [tp EXCEPT !.order_context =
                                    Some([account_id |-> e.account,
                                          side |-> try_side(e.type)[1]])]
                 ELSE tp,
          trade |-> None]
    ELSE IF e.kind = "OrderBatchCompleted"
    THEN [tp |-> [tp EXCEPT !.order_context = None, !.pending_maker_fills = <<>>],
          trade |-> None]
    ELSE IF e.kind = "MakerOrderFilled"
    THEN [tp |-> handle_maker_fill(tp, e), trade |-> None]
    ELSE IF e.kind = "TakerOrderFilled" THEN handle_taker_fill(tp, e)
    ELSE [tp |-> tp, trade |-> None]

(* The reset at the head of the loop body of process_block. *)
ResetAtBoundary(tp, e) ==
    IF tp.prev_tx_index # NoTx /\ tp.prev_tx_index < e.tx_index
    THEN [tp EXCEPT !.order_context = None, !.pending_maker_fills = <<>>]
    ELSE tp

(* The loop of process_block from event i on. *)
RECURSIVE ProcessFrom(_, _, _, _)
ProcessFrom(tp, events, i, found) ==
    IF i > Len(events) THEN [tp |-> tp, trades |-> found]
    ELSE LET r == process_event(ResetAtBoundary(tp, events[i]), events[i])
         IN ProcessFrom([r.tp EXCEPT !.prev_tx_index = events[i].tx_index],
                        events, i + 1, found \o r.trade)

(* TradeProcessor::process_block *)
process_block(tp, events) == ProcessFrom(tp, events, 1, <<>>)

(* Payloads of the events a block carries: requests of account 1 and 2     *)
(* with a side or without one, maker fills of two resting orders of        *)
(* account 3, a taker fill, the end of an order batch and an event the     *)
(* correlator has no use for.                                              *)
TradePayloads ==
    [kind : {"OrderRequest"}, account : {1}, type : {0, 4}]
    \cup
    [kind : {"OrderRequest"}, account : {2}, type : {1}]
    \cup
    [kind : {"MakerOrderFilled"}, perp : {1}, account : {3}, order_id : {1, 2}]
    \cup
    [kind : {"MakerOrderFilled"}, perp : {2}, account : {3}, order_id : {1}]
    \cup
    [kind : {"TakerOrderFilled"}, fee : {1}]
    \cup
    [kind : {"OrderBatchCompleted", "AccountCreated"}]

(* Payloads of the events of the blocks before the last one: what they     *)
(* leave in the processor is a context, pending maker fills and the index  *)
(* of their last transaction.                                              *)
EarlierPayloads ==
    [kind : {"OrderRequest"}, account : {2}, type : {1}]
    \cup
    [kind : {"MakerOrderFilled"}, perp : {1}, account : {3}, order_id : {2}]

(* The event context of a log: the hash of a transaction is told by its    *)
(* block and its index in the block.                                       *)
Logged(payload, block_number, tx_index, log_index) ==
    [f \in DOMAIN payload \cup {"tx_hash", "tx_index", "log_index"} |->
        IF f = "tx_hash" THEN <<block_number, tx_index>>
        ELSE IF f = "tx_index" THEN tx_index
        ELSE IF f = "log_index" THEN log_index
        ELSE payload[f]]

(* Transaction indices of n logs in block order. *)
TxRuns(n) ==
    {t \in [1..n -> 0..MaxTxIndex] : \A i \in 1..(n - 1) : t[i] <= t[i + 1]}

(* The payloads and the greatest number of logs of a block: short blocks   *)
(* before the last one.                                                    *)
BlockPayloads(block_number) ==
    IF block_number < MaxTradeBlocks THEN EarlierPayloads ELSE TradePayloads

BlockLength(block_number) ==
    IF block_number < MaxTradeBlocks THEN MaxEarlierEvents ELSE MaxTradeEvents

TradeIdle ==
    /\ processor = NewTradeProcessor
    /\ tradeBlock = [block_number |-> 0, events |-> <<>>]
    /\ trades = <<>>

(* process_block on the next block of the stream, whose logs come in       *)
(* (tx_index, log_index) order.                                            *)
ProcessBlock ==
    /\ tradeBlock.block_number < MaxTradeBlocks
    /\ \E n \in 0..BlockLength(tradeBlock.block_number + 1) :
         \E p \in [1..n -> BlockPayloads(tradeBlock.block_number + 1)], t \in TxRuns(n) :
            \E events \in {[i \in 1..n |->
                               Logged(p[i], tradeBlock.block_number + 1, t[i], i - 1)]} :
               \E r \in {process_block(processor, events)} :
                  /\ processor' = r.tp
                  /\ trades' = r.trades
                  /\ tradeBlock' = [block_number |-> tradeBlock.block_number + 1,
                                    events |-> events]

----------------------------------------------------------------------------
(* Snapshot builder (state/mod.rs): SnapshotBuilder::build with            *)
(* all_positions set, reading a contract whose chain grows meanwhile.      *)
(* Blocks are numbered from 1; every account of the contract holds a       *)
(* position in the one perpetual from the block it was created in.         *)

MaxLedger == 3

(* BlockId::latest(), the block id the builder is given. *)
Latest == 0

(* The number of the block an eth_call with the given block id is          *)
(* evaluated at.                                                           *)
EvaluatedAt(block_id, contract) == IF block_id = Latest THEN Len(contract) ELSE block_id

(* A read of the contract: the call and the block it was evaluated at. *)
ReadAt(call, block_id, contract) == [call |-> call, block |-> EvaluatedAt(block_id, contract)]

(* SnapshotBuilder::new *)
NewBuilder ==
    [pc |-> "normalize_block", block_id |-> Latest, num_of_accounts |-> 0,
     accounts |-> {}, reads |-> {}]

(* SnapshotBuilder::exchange_info: numberOfAccounts() is called without a  *)
(* block id, the other six calls with .block(self.block_id).               *)
exchange_info(b, contract) ==
    [b EXCEPT !.reads = @ \cup {ReadAt(call, b.block_id, contract)
                                  : call \in {"getExchangeInfo", "getFundingInterval",
                                              "getMinimumPostCNS", "getMinimumSettleCNS",
                                              "getRecycleFeeCNS", "isHalted"}}
                          \cup {ReadAt("numberOfAccounts", Latest, contract)},
              !.num_of_accounts = contract[EvaluatedAt(Latest, contract)],
              !.pc = "perpetuals"]

(* SnapshotBuilder::perpetuals with perpetual_orders. *)
perpetuals(b, contract) ==
    [b EXCEPT !.reads = @ \cup {ReadAt(call, b.block_id, contract)
                                  : call \in {"getPerpetualInfo", "getMakerFee",
                                              "getTakerFee", "getMarginFractions",
                                              "getOrderIdIndex", "getOrder"}},
              !.pc = "position_accounts"]

(* SnapshotBuilder::position_accounts: getPosition of the account ids      *)
(* 1..num_accounts at the block id; the positions whose account id is zero *)
(* are left out.                                                           *)
position_accounts(b, contract) ==
    [b EXCEPT !.reads = @ \cup {ReadAt("getPosition", b.block_id, contract)},
              !.accounts = {aid \in 1..b.num_of_accounts :
                               aid <= contract[EvaluatedAt(b.block_id, contract)]},
              !.pc = "done"]

BuilderIdle ==
    /\ ledger = <<0>>
    /\ builder = NewBuilder

(* A block is mined; accounts may have been created in it. *)
LedgerGrows ==
    /\ Len(ledger) < MaxLedger
    /\ \E n \in ledger[Len(ledger)]..MaxAccountId : ledger' = Append(ledger, n)
    /\ UNCHANGED builder

(* SnapshotBuilder::normalize_block: the block id becomes the number of    *)
(* the block the provider returned for it.                                 *)
NormalizeBlock ==
    /\ builder.pc = "normalize_block"
    /\ builder' = [builder EXCEPT !.block_id = EvaluatedAt(builder.block_id, ledger),
                                  !.reads = @ \cup {ReadAt("get_block", builder.block_id,
                                                           ledger)},
                                  !.pc = "exchange_info"]
    /\ UNCHANGED ledger

ExchangeInfo ==
    /\ builder.pc = "exchange_info"
    /\ builder' = exchange_info(builder, ledger)
    /\ UNCHANGED ledger

Perpetuals ==
    /\ builder.pc = "perpetuals"
    /\ builder' = perpetuals(builder, ledger)
    /\ UNCHANGED ledger

PositionAccounts ==
    /\ builder.pc = "position_accounts"
    /\ builder' = position_accounts(builder, ledger)
    /\ UNCHANGED ledger

----------------------------------------------------------------------------
(* Specifications. *)

BookIdle ==
    /\ book = EmptyBook
    /\ lastCall = "new"
    /\ lastArg = NoOrder
    /\ lastResult = "Init"

ExchangeIdle ==
    /\ exchange = IdleExchange
    /\ batchInstant = exchange.instant
    /\ batchEvents = <<>>
    /\ applyResult = Result("Init")

StreamIdle ==
    /\ chain = <<>>
    /\ from = 1
    /\ cursor = from
    /\ headReply = Pending
    /\ logsReply = Pending
    /\ pc = "query"
    /\ yielded = <<>>

BookInit == BookIdle /\ ExchangeIdle /\ StreamIdle /\ TradeIdle /\ BuilderIdle

(* The book driven through its incremental mutation methods. *)
BookNext ==
    \/ AddOrder
    \/ UpdateOrder
    \/ RemoveOrderById
    \/ MoveToBack

SpecBook ==
    BookInit
    /\ [][BookNext /\ UNCHANGED <<exchangeVars, streamVars, tradeVars, snapshotVars>>]_vars

(* One FIFO queue of the book driven through the mutation methods. *)
QueueNext ==
    \/ AddQueued
    \/ UpdateQueued
    \/ RemoveOrderById
    \/ MoveQueuedToBack

SpecQueues ==
    BookInit
    /\ [][QueueNext /\ UNCHANGED <<exchangeVars, streamVars, tradeVars, snapshotVars>>]_vars

(* A book loaded from a snapshot, the loaded orders then leaving it. *)
SnapshotNext ==
    \/ AddOrdersFromSnapshot
    \/ PerpetualOrders
    \/ RemoveOrderById

SpecSnapshot ==
    BookInit
    /\ [][SnapshotNext /\ UNCHANGED <<exchangeVars, streamVars, tradeVars, snapshotVars>>]_vars

(* The exchange as a snapshot leaves it; when every account is tracked it  *)
(* starts without positions and without open interest.                     *)
ExchangeInit ==
    /\ exchange \in {ex \in InitialExchanges :
                       ex.track_all_accounts => ex.perpetuals[1].open_interest = 0}
    /\ batchInstant = exchange.instant
    /\ batchEvents = <<>>
    /\ applyResult = Result("Init")
    /\ BookIdle
    /\ StreamIdle
    /\ TradeIdle
    /\ BuilderIdle

PositionBatches == BatchesOver(PositionEvents)

(* Batches of position events; a batch turned away at the gate is never    *)
(* read, so the empty batch stands for every batch carrying that instant.  *)
ApplyPositionEvents ==
    \E next_instant \in Instants :
      \E events \in IF TurnedAway(exchange, next_instant) THEN {<<>>} ELSE PositionBatches :
         ApplyBatch(next_instant, events)

SpecPositions ==
    ExchangeInit
    /\ [][ApplyPositionEvents /\ UNCHANGED <<bookVars, streamVars, tradeVars, snapshotVars>>]_vars

CreditBatches == BatchesOver(CreditEvents)

(* Batches of liquidation credits at any instant; the empty batch stands   *)
(* for the batches of an instant already applied.                          *)
ApplyCreditEvents ==
    \E next_instant \in Instants :
      \E events \in IF InstantGE(exchange.instant, next_instant)
                    THEN {<<>>} ELSE CreditBatches :
         ApplyBatch(next_instant, events)

SpecCredits ==
    ExchangeInit
    /\ [][ApplyCreditEvents /\ UNCHANGED <<bookVars, streamVars, tradeVars, snapshotVars>>]_vars

ContextInit ==
    /\ exchange \in ContextExchanges
    /\ batchInstant = exchange.instant
    /\ batchEvents = <<>>
    /\ applyResult = Result("Init")
    /\ BookIdle
    /\ StreamIdle
    /\ TradeIdle
    /\ BuilderIdle

(* The first call of apply_events after the snapshot, on the batch of the  *)
(* next block.                                                             *)
ApplyOrderEvents ==
    /\ applyResult.kind = "Init"
    /\ \E n \in 0..MaxContextEvents :
         \E t \in TxIndexes(n), payloads \in [1..n -> OrderPayloads] :
           \E events \in {OrderBatch(payloads, t)} :
              ApplyKeeping(StateInstant(exchange.instant.block_number + 1, 0),
                           events, events)

SpecContext ==
    ContextInit
    /\ [][ApplyOrderEvents /\ UNCHANGED <<bookVars, streamVars, tradeVars, snapshotVars>>]_vars

FundingInit ==
    /\ exchange \in HoldingExchanges(FALSE, PositionTypes, 1)
    /\ batchInstant = exchange.instant
    /\ batchEvents = <<>>
    /\ applyResult = Result("Init")
    /\ BookIdle
    /\ StreamIdle
    /\ TradeIdle
    /\ BuilderIdle

(* The empty batch and the batches of one event. *)
FundingBatches == {<<>>} \cup {<<e>> : e \in FundingEvents}

(* Batches of a funding, margin, deposit or position event at any instant; *)
(* the empty batch stands for the batches turned away at the gate.         *)
ApplyFundingEvents ==
    \E next_instant \in Instants :
      \E events \in IF TurnedAway(exchange, next_instant) THEN {<<>>} ELSE FundingBatches :
         ApplyRecording(next_instant, events)

SpecFunding ==
    FundingInit
    /\ [][ApplyFundingEvents /\ UNCHANGED <<bookVars, streamVars, tradeVars, snapshotVars>>]_vars

(* A deposit to the tracked account 1, and an increase of a position that  *)
(* account 1 does not hold, which fails with PositionNotFound.             *)
DepositEvents ==
    [kind : {"CollateralDeposit"}, account : {1}, balance : {1}, tx_index : {0}]
    \cup
    [kind : {"PositionIncreased"}, account : {1}, perp : {1},
     price : {4}, size : {1}, deposit : {1}, tx_index : {0}]

InstantsInit ==
    /\ exchange \in HoldingExchanges(FALSE, {}, 1)
    /\ batchInstant = exchange.instant
    /\ batchEvents = <<>>
    /\ applyResult = Result("Init")
    /\ BookIdle
    /\ StreamIdle
    /\ TradeIdle
    /\ BuilderIdle

(* Batches of deposits and failing increases at any instant. *)
ApplyDepositEvents ==
    \E next_instant \in Instants :
      \E events \in IF TurnedAway(exchange, next_instant) THEN {<<>>}
                    ELSE BatchesOver(DepositEvents) :
         ApplyRecording(next_instant, events)

SpecInstants ==
    InstantsInit
    /\ [][ApplyDepositEvents /\ UNCHANGED <<bookVars, streamVars, tradeVars, snapshotVars>>]_vars

(* The creation of account 2, which no snapshot holds, a deposit to it, a  *)
(* position it opens and an increase of a position it does not hold.       *)
AccountEvents ==
    [kind : {"AccountCreated"}, account : {2}, tx_index : {0}]
    \cup
    [kind : {"CollateralDeposit"}, account : {2}, balance : {1}, tx_index : {0}]
    \cup
    [kind : {"PositionOpened"}, account : {2}, perp : {1}, type : {"Short"},
     price : {2}, size : {1}, deposit : {1}, tx_index : {0}]
    \cup
    [kind : {"PositionIncreased"}, account : {2}, perp : {1},
     price : {4}, size : {1}, deposit : {1}, tx_index : {0}]

(* The snapshot tracks account 1, with all accounts tracked or not. *)
AccountsInit ==
    /\ exchange \in UNION {HoldingExchanges(all, {}, 1) : all \in BOOLEAN}
    /\ batchInstant = exchange.instant
    /\ batchEvents = <<>>
    /\ applyResult = Result("Init")
    /\ BookIdle
    /\ StreamIdle
    /\ TradeIdle
    /\ BuilderIdle

(* The batch of the next block over those events. *)
ApplyAccountEvents ==
    \E events \in BatchesOver(AccountEvents) :
       ApplyRecording(StateInstant(exchange.instant.block_number + 1, 0), events)

SpecAccounts ==
    AccountsInit
    /\ [][ApplyAccountEvents /\ UNCHANGED <<bookVars, streamVars, tradeVars, snapshotVars>>]_vars

(* The order events of one transaction of account 1 on perpetual 1: a      *)
(* request for order 1 that asks at any price, zero included, followed by  *)
(* the placement, change or cancellation made from it, with any size, zero *)
(* included; and a fill of order 1.  Every event that reports balances     *)
(* reports one unit.                                                       *)
OrderRequests ==
    [kind : {"OrderRequest"}, perp : {1}, account : {1}, order_id : {1}, type : {1},
     side : {"Ask"}, price : Prices, request_id : {1}, tx_index : {0}, log_index : {0}]

RequestedEvents ==
    [kind : {"OrderPlaced"}, order_id : {1}, size : Sizes,
     locked_balance : {1}, balance : {1}, tx_index : {0}, log_index : {1}]
    \cup
    [kind : {"OrderChanged"}, price : Prices, size : Sizes,
     locked_balance : {1}, balance : {1}, tx_index : {0}, log_index : {1}]
    \cup
    [kind : {"OrderCancelled"},
     locked_balance : {1}, balance : {1}, tx_index : {0}, log_index : {1}]

FillEvents ==
    [kind : {"MakerOrderFilled"}, perp : {1}, account : {1}, order_id : {1},
     price : {1}, size : 1..MaxSize,
     locked_balance : {1}, balance : {1}, tx_index : {0}, log_index : {0}]

OrderBatches ==
    {<<>>} \cup {<<r, e>> : r \in OrderRequests, e \in RequestedEvents}
           \cup {<<e>> : e \in FillEvents}

(* The exchange as the snapshot builder leaves it at block 0, with order 1 *)
(* of account 1 resting in perpetual 1 at price 1 with size MaxSize, or    *)
(* with an empty book.                                                     *)
RestingExchanges ==
    LET at == StateInstant(0, 0)
        resting == [instant |-> at, order_id |-> 1, side |-> "Ask", account_id |-> 1,
                    price |-> 1, size |-> MaxSize]
    IN {[instant |-> at,
         track_all_accounts |-> FALSE,
         accounts |-> Put(EmptyMap, 1, from_event(at)),
         perpetuals |-> Put(EmptyMap, 1, perp)]
          : perp \in {Perpetual(at, 0, 1), perp_add_order(Perpetual(at, 0, 1), resting)}}

OrdersInit ==
    /\ exchange \in RestingExchanges
    /\ batchInstant = exchange.instant
    /\ batchEvents = <<>>
    /\ applyResult = Result("Init")
    /\ BookIdle
    /\ StreamIdle
    /\ TradeIdle
    /\ BuilderIdle

(* The batch of the next block: one transaction of order events. *)
ApplyBookEvents ==
    \E events \in OrderBatches :
       ApplyRecordingAs(StateInstant(exchange.instant.block_number + 1, 0), events, <<>>)

SpecOrders ==
    OrdersInit
    /\ [][ApplyBookEvents /\ UNCHANGED <<bookVars, streamVars, tradeVars, snapshotVars>>]_vars

(* Raw events of account 1, and position increases of the untracked        *)
(* account 2, on the tracked perpetual 1 or the untracked perpetual 2; the *)
(* order events come after the request they are made from.                 *)
RawEvents ==
    [kind : {"PositionOpened"}, account : {1}, perp : {1, 2},
     type : PositionTypes, price : {4}, size : {1}, deposit : {2}, tx_index : {0},
     log_index : {0}]
    \cup
    [kind : {"PositionInverted"}, account : {1}, perp : {1, 2},
     type : PositionTypes, price : {4}, size : {2}, deposit : {2}, tx_index : {0},
     log_index : {0}]
    \cup
    [kind : {"PositionIncreased"}, account : {1, 2}, perp : {1, 2},
     price : {4}, size : {2}, deposit : {2}, tx_index : {0}, log_index : {0}]
    \cup
    [kind : {"PositionUnwound"}, account : {1}, perp : {1, 2}, balance : {1},
     tx_index : {0}, log_index : {0}]
    \cup
    [kind : {"MakerOrderFilled"}, perp : {1, 2}, account : {1}, order_id : {1},
     price : {1}, size : {1, MaxSize},
     locked_balance : {1}, balance : {1}, tx_index : {0}, log_index : {0}]
    \cup
    [kind : {"FundingEventCompleted"}, perp : {2}, payment : {1}, block : {1},
     tx_index : {0}, log_index : {0}]

RawRequests ==
    [kind : {"OrderRequest"}, perp : {1, 2}, account : {1}, order_id : {1},
     type : {1, 4, 7}, side : {"Ask"}, price : {1}, request_id : {1}, tx_index : {0},
     log_index : {0}]

RawRequested ==
    [kind : {"OrderPlaced"}, order_id : {1}, size : {1},
     locked_balance : {1}, balance : {1}, tx_index : {0}, log_index : {1}]
    \cup
    [kind : {"OrderChanged"}, price : {1}, size : {1},
     locked_balance : {1}, balance : {1}, tx_index : {0}, log_index : {1}]
    \cup
    [kind : {"OrderCancelled"},
     locked_balance : {1}, balance : {1}, tx_index : {0}, log_index : {1}]

RawBatches ==
    {<<e>> : e \in RawEvents} \cup {<<r, e>> : r \in RawRequests, e \in RawRequested}

(* The exchange as the snapshot builder leaves it at block 0: account 1    *)
(* holds no position or one of size 1 in perpetual 1, where its order 1    *)
(* rests at price 1 with size MaxSize, or where the book is empty.         *)
EventExchanges ==
    LET resting == [instant |-> StateInstant(0, 0), order_id |-> 1, side |-> "Ask",
                    account_id |-> 1, price |-> 1, size |-> MaxSize]
    IN UNION {{ex, [ex EXCEPT !.perpetuals[1] = perp_add_order(@, resting)]}
                : ex \in HoldingExchanges(FALSE, PositionTypes, 1)}

EventsInit ==
    /\ exchange \in EventExchanges
    /\ batchInstant = exchange.instant
    /\ batchEvents = <<>>
    /\ applyResult = Result("Init")
    /\ BookIdle
    /\ StreamIdle
    /\ TradeIdle
    /\ BuilderIdle

(* The batch of the next block: one raw event, or a request and the order  *)
(* event made from it.                                                     *)
ApplyRawEvents ==
    \E events \in RawBatches :
       ApplyRecording(StateInstant(exchange.instant.block_number + 1, 0), events)

SpecEvents ==
    EventsInit
    /\ [][ApplyRawEvents /\ UNCHANGED <<bookVars, streamVars, tradeVars, snapshotVars>>]_vars

(* The correlator fed the blocks of the stream one after the other. *)
SpecTrades ==
    BookInit /\ [][ProcessBlock /\ UNCHANGED <<bookVars, exchangeVars, streamVars, snapshotVars>>]_vars

(* The consumer of tests/events.rs: a snapshot taken at block `from`, the   *)
(* raw stream started at the snapshot's instant, and every Ok batch handed *)
(* to apply_events on the snapshot as it is yielded.  An item that is an   *)
(* error is passed over; the consumer ends with the first apply_events     *)
(* call that fails.                                                        *)
StreamedEvents ==
    [kind : {"PositionOpened", "PositionClosed"},
     account : {1}, perp : TrackedPerpetuals, type : {"Long"},
     size : {1}, tx_index : {0}]

Snapshots(block_number) ==
    {[ex EXCEPT !.instant = StateInstant(block_number, BlockTimestamp(block_number))]
       : ex \in InitialExchanges}

FollowInit ==
    /\ chain \in UNION {[1..n -> 0..MaxLogs] : n \in 1..MaxHead}
    /\ from \in 1..MaxFrom
    /\ from <= Len(chain)
    /\ cursor = from
    /\ headReply = Pending
    /\ logsReply = Pending
    /\ pc = "query"
    /\ yielded = <<>>
    /\ exchange \in Snapshots(from)
    /\ batchInstant = exchange.instant
    /\ batchEvents = <<>>
    /\ applyResult = Result("Init")
    /\ BookIdle
    /\ TradeIdle
    /\ BuilderIdle

(* stream.next() gave an item: apply_events on the batch of an Ok item. *)
Consume ==
    /\ applyResult.kind \in {"Init", "Ok", "AlreadyApplied"}
    /\ Yield
    /\ \E item \in {yielded'[Len(yielded')]} :
         IF item.kind # "Ok" THEN UNCHANGED exchangeVars
         ELSE \E events \in [1..item.logs -> StreamedEvents] :
                \E next_instant \in {StateInstant(item.block_number, item.block_timestamp)} :
                   \E r \in {apply_events(exchange, next_instant, events)} :
                      /\ exchange' = r.ex
                      /\ batchInstant' = next_instant
                      /\ batchEvents' = <<>>
                      /\ applyResult' \in {r.res}
                                            \cup (IF r.trap THEN {Result("Panic")} ELSE {})

FollowNext ==
    \/ ChainGrows /\ UNCHANGED exchangeVars
    \/ GetBlockNumber /\ UNCHANGED exchangeVars
    \/ GetLogs /\ UNCHANGED exchangeVars
    \/ Retry /\ UNCHANGED exchangeVars
    \/ Sleep /\ UNCHANGED exchangeVars
    \/ Consume

SpecFollow ==
    FollowInit
    /\ [][FollowNext /\ UNCHANGED <<bookVars, tradeVars, snapshotVars>>]_vars

(* A snapshot built at the latest block of a contract with any number of   *)
(* accounts while blocks are mined.                                        *)
BuildInit ==
    /\ ledger \in {<<n>> : n \in 0..MaxAccountId}
    /\ builder = NewBuilder
    /\ BookIdle
    /\ ExchangeIdle
    /\ StreamIdle
    /\ TradeIdle

BuildNext ==
    \/ LedgerGrows
    \/ NormalizeBlock
    \/ ExchangeInfo
    \/ Perpetuals
    \/ PositionAccounts

SpecBuild ==
    BuildInit
    /\ [][BuildNext /\ UNCHANGED <<bookVars, exchangeVars, streamVars, tradeVars>>]_vars

(* The stream started at block `from` of a chain of any length. *)
StreamInit ==
    /\ chain \in UNION {[1..n -> 0..MaxLogs] : n \in 0..MaxHead}
    /\ from \in 1..MaxFrom
    /\ cursor = from
    /\ headReply = Pending
    /\ logsReply = Pending
    /\ pc = "query"
    /\ yielded = <<>>
    /\ BookIdle
    /\ ExchangeIdle
    /\ TradeIdle
    /\ BuilderIdle

StreamNext ==
    \/ ChainGrows
    \/ GetBlockNumber
    \/ GetLogs
    \/ Retry
    \/ Sleep
    \/ Yield

SpecStream ==
    StreamInit
    /\ [][StreamNext /\ UNCHANGED <<bookVars, exchangeVars, tradeVars, snapshotVars>>]_vars

(* The stream polled by a consumer that takes up to MaxItems items: a      *)
(* resolved poll is followed by its yield or by its sleep, and the sleep   *)
(* returns.                                                                *)
SpecStreamFair ==
    SpecStream /\ WF_streamVars(Yield) /\ WF_streamVars(Retry) /\ WF_streamVars(Sleep)

----------------------------------------------------------------------------
(* Properties of the event application engine. *)

(* Long open interest of perpetual p summed over the tracked accounts. *)
RECURSIVE LongInterest(_, _, _)
LongInterest(ex, p, accs) ==
    IF accs = {} THEN 0
    ELSE LET a == CHOOSE x \in accs : TRUE
             own == IF /\ p \in DOMAIN ex.accounts[a].positions
                       /\ ex.accounts[a].positions[p].type = "Long"
                    THEN ex.accounts[a].positions[p].size
                    ELSE 0
         IN own + LongInterest(ex, p, accs \ {a})

ReturnedError(res) == res.kind \notin {"Init", "Ok", "AlreadyApplied", "Panic"}

(* C1: apply_events on a batch for the block right after the current one   *)
(* is all-or-nothing: when it returns an error the exchange is exactly as  *)
(* it was before the call, and when it succeeds the instant of the         *)
(* exchange is the instant of the batch.                                   *)
C1_AllOrNothing ==
    [][batchInstant'.block_number = exchange.instant.block_number + 1
         => /\ ReturnedError(applyResult') => exchange' = exchange
            /\ applyResult'.kind = "Ok" => exchange'.instant = batchInstant']_vars

(* C2: apply_events on a batch whose block number is at most the current   *)
(* block number, whatever the two timestamps are, returns the              *)
(* already-applied result and changes no state.                            *)
C2_OldBlockIsAlreadyApplied ==
    [][batchInstant'.block_number <= exchange.instant.block_number
         => /\ applyResult'.kind = "AlreadyApplied"
            /\ exchange' = exchange]_vars

(* C3: apply_events on a batch whose block number is greater than the      *)
(* current block number + 1 fails with BlockOutOfOrder(current + 1, batch  *)
(* block number) and changes no state.                                     *)
C3_GapIsRejected ==
    [][batchInstant'.block_number > exchange.instant.block_number + 1
         => /\ applyResult' = BlockOutOfOrder(exchange.instant.block_number + 1,
                                              batchInstant'.block_number)
            /\ exchange' = exchange]_vars

(* A batch two blocks ahead was rejected by an exchange that had applied   *)
(* a block and holds a credited balance.                                   *)
C3_GapWasRejected ==
    /\ applyResult = BlockOutOfOrder(exchange.instant.block_number + 1,
                                     batchInstant.block_number)
    /\ batchInstant.block_number > exchange.instant.block_number + 1
    /\ exchange.instant.block_number > 0
    /\ \E a \in DOMAIN exchange.accounts : exchange.accounts[a].balance > 0

(* C5: after every successful apply_events call the open interest of every *)
(* perpetual equals the sum of the sizes of the tracked long positions in  *)
(* it.                                                                     *)
C5_OpenInterestIsLongSum ==
    applyResult.kind = "Ok"
      => \A p \in DOMAIN exchange.perpetuals :
           exchange.perpetuals[p].open_interest
             = LongInterest(exchange, p, DOMAIN exchange.accounts)

(* An OrderRequest occurred before event i in the transaction of event i,  *)
(* and no OrderBatchCompleted between the two.                             *)
HasContext(events, i) ==
    \E j \in 1..(i - 1) :
       /\ events[j].kind = "OrderRequest"
       /\ events[j].tx_index = events[i].tx_index
       /\ \A k \in (j + 1)..(i - 1) : events[k].kind # "OrderBatchCompleted"

(* The events of the given kinds that are reached with no context set. *)
Stranded(events, kinds) ==
    {i \in 1..Len(events) : events[i].kind \in kinds /\ ~HasContext(events, i)}

Least(S) == CHOOSE i \in S : \A j \in S : i <= j

RejectionKinds == {"CrossesBook", "PriceOutOfRange"}

ContextKinds ==
    {"OrderPlaced", "OrderChanged", "OrderCancelled", "TakerOrderFilled"} \cup RejectionKinds

(* The call fails at the first event of `kinds` that has no context, with  *)
(* the indices of that event, unless an event before it failed for an      *)
(* order that is not there; it fails for a missing context at no other     *)
(* event; and every order event it returns carries the request of the      *)
(* transaction of its raw event.                                           *)
ContextRequiredBy(kinds) ==
    applyResult.kind # "Init"
      => /\ Stranded(batchEvents, kinds) # {}
              => LET first == Least(Stranded(batchEvents, kinds))
                     e == batchEvents[first]
                 IN \/ applyResult = OrderContextExpected(e.tx_index, e.log_index)
                    \/ /\ applyResult.kind = "OrderNotFound"
                       /\ \E j \in 1..(first - 1) :
                             batchEvents[j].kind \in {"OrderCancelled", "OrderChanged"}
         /\ applyResult.kind = "OrderContextExpected" => Stranded(batchEvents, kinds) # {}
         /\ applyResult.kind = "Ok"
              => \A n \in 1..Len(applyResult.events) :
                    applyResult.events[n].request_id = applyResult.events[n].tx_index + 1

----------------------------------------------------------------------------
(* Properties of the raw block stream. *)

OkItems(items) == SelectSeq(items, LAMBDA item : item.kind = "Ok")

(* C4: the Ok items yielded so far carry the consecutive block numbers     *)
(* from, from + 1, ... with none skipped or repeated, and the cursor is    *)
(* the block after the last Ok item: an Err item leaves it where it was.   *)
C4_ConsecutiveBlocks ==
    LET oks == OkItems(yielded)
    IN /\ \A i \in 1..Len(oks) : oks[i].block_number = from + i - 1
       /\ cursor = from + Len(oks)

(* An error was surfaced between two Ok items, after a poll that found the *)
(* block not available yet.                                                *)
C4_OkErrOk ==
    /\ Len(yielded) = 3
    /\ yielded[1].kind = "Ok"
    /\ yielded[2].kind \notin {"Ok"}
    /\ yielded[3].kind = "Ok"
    /\ pc = "sleep"

----------------------------------------------------------------------------
(* Properties of funding, margins and instants. *)

(* The pending funding of a perpetual falls due in a call for block b when *)
(* its block is at most b and either the call sets it or the perpetual's   *)
(* state_instant was in an earlier block than the funding's before.        *)
FallsDue(before, perp, p, batch, b) ==
    /\ perp.next_funding_payment # None
    /\ perp.next_funding_event_block[1] <= b
    /\ \/ before.perpetuals[p].state_instant.block_number < perp.next_funding_event_block[1]
       \/ \E i \in DOMAIN batch :
             batch[i].kind = "FundingEventCompleted" /\ batch[i].perp = p

(* premium_pnl after a payment per unit: longs pay, shorts receive. *)
Charged(pos, payment_per_unit) ==
    pos.premium_pnl + (IF pos.type = "Long" THEN -1 ELSE 1) * payment_per_unit * pos.size

(* C21: when a perpetual holds a pending funding (payment per unit, block  *)
(* B) set by FundingEventCompleted, the first successful apply_events call *)
(* that moves its state_instant to a block >= B applies the payment, in    *)
(* the second pass, to every tracked position in it: also when the event   *)
(* arrives in a block later than B, and also to the positions opened or    *)
(* modified in that block.                                                 *)
C21_PendingFundingIsApplied ==
    [][applyResult'.kind = "Ok" =>
         LET first == ApplyEach(exchange, batchInstant', batchEvents', NoContext, NoTx,
                                <<>>, FALSE).ex
         IN \A p \in DOMAIN first.perpetuals :
              FallsDue(exchange, first.perpetuals[p], p, batchEvents',
                       batchInstant'.block_number)
              => \A a \in DOMAIN first.accounts :
                    p \in DOMAIN first.accounts[a].positions
                    => exchange'.accounts[a].positions[p].premium_pnl =
                          Charged(first.accounts[a].positions[p],
                                  first.perpetuals[p].next_funding_payment[1])]_vars

(* The call with result `res` applied a funding payment to the position of *)
(* account a in perpetual p.                                               *)
ChargedIn(res, a, p) ==
    /\ res.kind = "Ok"
    /\ \E i \in DOMAIN res.events :
          \E j \in DOMAIN res.events[i].events :
             LET ev == res.events[i].events[j]
             IN /\ ev.class = "position"
                /\ ev.type = "UnrealizedPnLUpdated"
                /\ ev.subject = <<a, p>>

(* The batch sets a funding for perpetual p. *)
SetsFunding(batch, p) ==
    \E i \in DOMAIN batch : batch[i].kind = "FundingEventCompleted" /\ batch[i].perp = p

(* C22: applying a funding payment at instant i to a position whose        *)
(* funding_instant is already >= i changes nothing; hence across a         *)
(* sequence of apply_events calls one funding event changes a position's   *)
(* premium_pnl at most once: a position charged by one call is not charged *)
(* again by the next call unless its batch sets a new funding.             *)
C22_FundingChargesOnce ==
    [][/\ \A a \in DOMAIN exchange.accounts :
            \A p \in DOMAIN exchange.accounts[a].positions :
               \A i \in Instants :
                  LET pos == exchange.accounts[a].positions[p]
                  IN InstantGE(pos.funding_instant, i)
                     => \A pay \in 0..MaxPrice :
                           apply_funding_payment(pos, i, pay) =
                              [pos |-> pos, applied |-> FALSE]
       /\ \A a \in DOMAIN exchange.accounts :
            \A p \in DOMAIN exchange.accounts[a].positions :
               (ChargedIn(applyResult, a, p) /\ ~SetsFunding(batchEvents', p))
               => ~ChargedIn(applyResult', a, p)]_vars

(* C27: after a successful apply_events call whose batch contains a        *)
(* MaintenanceMarginFractionUpdated event for perpetual P, every tracked   *)
(* position in P has its maintenance_margin_requirement re-derived from    *)
(* P's new maintenance margin.                                             *)
C27_MarginRequirementRederived ==
    applyResult.kind = "Ok"
    => \A i \in DOMAIN batchEvents :
          (batchEvents[i].kind = "MaintenanceMarginFractionUpdated"
           /\ batchEvents[i].perp \in DOMAIN exchange.perpetuals)
          => LET p == batchEvents[i].perp
             IN \A a \in DOMAIN exchange.accounts :
                   p \in DOMAIN exchange.accounts[a].positions
                   => LET pos == exchange.accounts[a].positions[p]
                      IN pos.maintenance_margin_requirement =
                            Requirement(pos.entry_price, pos.size,
                                        exchange.perpetuals[p].maintenance_margin)

(* C23: after every successful apply_events call, in any sequence of calls *)
(* (some of which may have returned errors), every account of the exchange *)
(* has an instant that is at most the instant of the exchange.             *)
C23_AccountsNotAheadOfExchange ==
    applyResult.kind \in {"Ok", "AlreadyApplied"}
    => \A a \in DOMAIN exchange.accounts :
          InstantGE(exchange.instant, exchange.accounts[a].instant)

(* The orders of a level of the book of l2_book.rs, and the ids reachable  *)
(* through the levels of a book.                                           *)
LevelIds(level) == {k[2] : k \in DOMAIN level.orders}

ReachableIds(b) ==
    UNION {LevelIds(b.asks[p]) : p \in DOMAIN b.asks}
    \cup UNION {LevelIds(b.bids[p]) : p \in DOMAIN b.bids}

(* C24: after every successful apply_events call, every order stored in    *)
(* any perpetual's book has size > 0 and price > 0, whatever OrderPlaced,  *)
(* OrderChanged and MakerOrderFilled events were applied (zero sizes and   *)
(* prices and fills at least as large as the resting size included).       *)
C24_StoredOrdersArePositive ==
    applyResult.kind = "Ok"
    => \A p \in DOMAIN exchange.perpetuals :
          LET perp == exchange.perpetuals[p]
          IN /\ \A id \in DOMAIN perp.orders :
                   perp.orders[id].size > 0 /\ perp.orders[id].price > 0
             /\ \A side \in Sides :
                   \A price \in DOMAIN SideLevels(perp.l2_book, side) :
                      \A k \in DOMAIN SideLevels(perp.l2_book, side)[price].orders :
                         LET o == SideLevels(perp.l2_book, side)[price].orders[k]
                         IN o.size > 0 /\ o.price > 0

(* C25: after every successful apply_events call, for every perpetual the  *)
(* book's total_orders equals the number of orders in the order map, and   *)
(* the set of order ids reachable through the book's levels equals the set *)
(* of ids in the order map, also when an order id is used again.           *)
C25_BookAgreesWithOrderMap ==
    applyResult.kind = "Ok"
    => \A p \in DOMAIN exchange.perpetuals :
          LET perp == exchange.perpetuals[p]
          IN /\ Cardinality(DOMAIN perp.l2_book.order_index) = Cardinality(DOMAIN perp.orders)
             /\ ReachableIds(perp.l2_book) = DOMAIN perp.orders

(* The place of a kind of state event in the emission order. *)
ClassRank(class) ==
    CASE class = "order" -> 1
      [] class = "account" -> 2
      [] class = "perpetual" -> 3
      [] class = "position" -> 4

(* C26: for every raw event, the state events that apply_events emits for  *)
(* it are ordered by kind: all order events first, then account events,    *)
(* then perpetual events, then position events.                            *)
C26_EmittedInKindOrder ==
    applyResult.kind = "Ok"
    => \A g \in DOMAIN applyResult.events :
          applyResult.events[g].of # None
          => LET emitted == applyResult.events[g].events
             IN \A i, j \in DOMAIN emitted :
                   i < j => ClassRank(emitted[i].class) <= ClassRank(emitted[j].class)

(* The batch is one PositionInverted event for a position that its        *)
(* account holds in a tracked perpetual.                                   *)
InvertsHeld(ex, batch) ==
    /\ Len(batch) = 1
    /\ batch[1].kind = "PositionInverted"
    /\ batch[1].account \in DOMAIN ex.accounts
    /\ batch[1].perp \in DOMAIN ex.accounts[batch[1].account].positions
    /\ batch[1].perp \in DOMAIN ex.perpetuals

(* The position events emitted for the first raw event of the batch. *)
PositionEventsOf(res) ==
    IF res.kind = "Ok" /\ res.events # <<>> /\ res.events[1].of # None
    THEN SelectSeq(res.events[1].events, LAMBDA ev : ev.class = "position")
    ELSE <<>>

(* The Closed event of an inversion carries what the position was. *)
ClosedCarries(ev, e, prev) ==
    /\ ev.type = "Closed"
    /\ ev.subject = <<e.account, e.perp>>
    /\ ev.data.type = prev.type
    /\ ev.data.entry_price = prev.entry_price
    /\ ev.data.size = prev.size

(* The stored position has what the PositionInverted event carries. *)
StoredAsInverted(pos, e) ==
    /\ pos.type = e.type
    /\ pos.entry_price = e.price
    /\ pos.size = e.size
    /\ pos.deposit = e.deposit

RefersUntracked(ex, batch) ==
    batch # <<>> /\ batch[1].perp \notin DOMAIN ex.perpetuals

(* C29: events that reference a perpetual id which is not among the        *)
(* tracked perpetuals are ignored: they never make apply_events fail or    *)
(* panic and never create or change a perpetual, an order or a position    *)
(* (the call only commits its instant), even when the account they         *)
(* reference is tracked.                                                   *)
C29_UntrackedPerpetualIgnored ==
    [][RefersUntracked(exchange, batchEvents')
       => /\ applyResult'.kind = "Ok"
          /\ exchange'.perpetuals =
                [p \in DOMAIN exchange.perpetuals |->
                   [exchange.perpetuals[p] EXCEPT !.state_instant = batchInstant']]
          /\ \A a \in DOMAIN exchange'.accounts :
                exchange'.accounts[a].positions =
                   IF a \in DOMAIN exchange.accounts THEN exchange.accounts[a].positions
                   ELSE EmptyMap]_vars

(* Both calls of the poll have returned and the head is `below` the cursor *)
(* or not.                                                                 *)
Reported(below) ==
    /\ pc = "query"
    /\ headReply.kind = "Ok"
    /\ logsReply.kind = "Ok"
    /\ (headReply.value < cursor) = below

(* C30: while the source reports a head block number below the cursor, the *)
(* stream yields no item, neither Ok nor Err, and sleeps before every      *)
(* retry; once the source reports head >= cursor and the query succeeds,   *)
(* the poll ends in no other way than by yielding the block at the cursor  *)
(* (or the failure to decode its logs), and it does end when the consumer  *)
(* still takes items.                                                      *)
C30_WaitsThenYieldsCursorBlock ==
    /\ [][Reported(TRUE)
          => /\ yielded' = yielded
             /\ cursor' = cursor
             /\ headReply' = headReply /\ logsReply' = logsReply
             /\ pc' \in {"query", "sleep"}]_vars
    /\ [][(headReply # Pending /\ headReply' = Pending /\ yielded' = yielded)
          => pc = "sleep"]_vars
    /\ [][(Reported(FALSE) /\ (yielded' # yielded \/ ~Reported(FALSE)'))
          => LET item == yielded'[Len(yielded')]
             IN /\ yielded' = Append(yielded, item)
                /\ item.kind \in {"Ok", "Decode"}
                /\ item.kind = "Ok" => item.block_number = cursor /\ cursor' = cursor + 1]_vars
    /\ (Reported(FALSE) /\ Len(yielded) < MaxItems) ~> ~Reported(FALSE)

(* The stream has yielded a block and sleeps now, the source having        *)
(* reported a head below the cursor.                                       *)
C30_Witness ==
    /\ pc = "sleep"
    /\ headReply.kind = "Ok"
    /\ logsReply.kind = "Ok"
    /\ headReply.value < cursor
    /\ \E i \in DOMAIN yielded : yielded[i].kind = "Ok" /\ yielded[i].block_number = from

----------------------------------------------------------------------------
(* Properties of the order book. *)

(* The level an order belongs to, and the FIFO iteration of a level (empty *)
(* when the level is not in the price map).                                *)
LevelKeyOf(o) == <<o.side, o.price>>

QueueAt(b, k) == IF HasLevel(b, k[1], k[2]) THEN Chain(b, k) ELSE <<>>

(* The stored order under an id. *)
Stored(b, id) == b.orders[b.order_index[id]]

Known(b, id) == id \in DOMAIN b.order_index /\ b.order_index[id] \in DOMAIN b.orders

(* q without the element x. *)
Without(q, x) == SelectSeq(q, LAMBDA y : y # x)

C12_ReductionKeepsPosition ==
    [][(/\ lastCall' = "update_order"
        /\ lastResult' = "Ok"
        /\ lastArg'.size < lastArg'.prev_size)
         => LET k == LevelKeyOf(lastArg')
            IN /\ HasLevel(book, k[1], k[2]) /\ HasLevel(book', k[1], k[2])
               /\ Stored(book, lastArg'.order_id).size = lastArg'.prev_size
               /\ Chain(book', k) = Chain(book, k)
               /\ LevelAt(book', k).cached_count = LevelAt(book, k).cached_count
               /\ LevelAt(book', k).cached_size
                    = LevelAt(book, k).cached_size + lastArg'.size - lastArg'.prev_size
               /\ Stored(book', lastArg'.order_id).size = lastArg'.size]_vars

(* The head of a level of three orders was reduced from MaxSize to 1 and   *)
(* is still the head.                                                      *)
C12_HeadReducedInPlace ==
    /\ lastCall = "update_order"
    /\ lastResult = "Ok"
    /\ lastArg.prev_size = MaxSize
    /\ lastArg.size = 1
    /\ Len(QueueAt(book, LevelKeyOf(lastArg))) = 3
    /\ Head(QueueAt(book, LevelKeyOf(lastArg))) = lastArg.order_id
    /\ Stored(book, lastArg.order_id).size = 1

(* C13: after a successful move_to_back(o) the FIFO iteration of o's level *)
(* is the iteration before the call without o, followed by o; o carries    *)
(* its new size, the level's count is unchanged and its cached size        *)
(* changes by (new size - old size); when o was the tail the iteration is  *)
(* the one before the call.                                                *)
C13_MoveToBackRelinksAsTail ==
    [][(lastCall' = "move_to_back" /\ lastResult' = "Ok")
         => LET k == LevelKeyOf(lastArg')
                id == lastArg'.order_id
            IN /\ HasLevel(book, k[1], k[2]) /\ HasLevel(book', k[1], k[2])
               /\ Stored(book, id).size = lastArg'.prev_size
               /\ Chain(book', k) = Append(Without(Chain(book, k), id), id)
               /\ Chain(book, k)[Len(Chain(book, k))] = id
                    => Chain(book', k) = Chain(book, k)
               /\ LevelAt(book', k).cached_count = LevelAt(book, k).cached_count
               /\ LevelAt(book', k).cached_size
                    = LevelAt(book, k).cached_size + lastArg'.size - lastArg'.prev_size
               /\ Stored(book', id).size = lastArg'.size
               /\ Stored(book', id).price = lastArg'.price
               /\ Stored(book', id).side = lastArg'.side]_vars

(* Order 2 stood between 1 and 3, was increased from 1 to MaxSize through  *)
(* move_to_back and now follows 3.                                         *)
C13_MiddleMovedBehindTail ==
    /\ lastCall = "move_to_back"
    /\ lastResult = "Ok"
    /\ lastArg.order_id = 2
    /\ lastArg.prev_size = 1
    /\ lastArg.size = MaxSize
    /\ QueueAt(book, LevelKeyOf(lastArg)) = <<1, 3, 2>>
    /\ LevelAt(book, LevelKeyOf(lastArg)).cached_size = 1 + 1 + MaxSize

(* C14: after a successful removal by id the FIFO iteration of the level   *)
(* the order stood in is the iteration before the call without that order, *)
(* whatever its position was; the first remaining order has no prev, the   *)
(* last has no next, the level's head and tail are those two orders, and   *)
(* the id is no longer retrievable.                                        *)
C14_RemoveKeepsRelativeOrder ==
    [][(lastCall' = "remove_order_by_id" /\ lastResult' = "Ok")
         => LET id == lastArg'.order_id
                k == LevelKeyOf(Stored(book, id))
                rest == Without(Chain(book, k), id)
            IN /\ id \in SeqRange(Chain(book, k))
               /\ QueueAt(book', k) = rest
               /\ ~Known(book', id)
               /\ rest # <<>>
                    => /\ LevelAt(book', k).head = book'.order_index[rest[1]]
                       /\ LevelAt(book', k).tail = book'.order_index[rest[Len(rest)]]
                       /\ Stored(book', rest[1]).prev = NoSlot
                       /\ Stored(book', rest[Len(rest)]).next = NoSlot
                       /\ ChainBack(book', k) = Reversed(rest)]_vars

(* An order was removed from a level of three; the two others remain, in   *)
(* an order that their ids do not give.                                    *)
C14_TwoRemainInOrder ==
    /\ lastCall = "remove_order_by_id"
    /\ lastResult = "Ok"
    /\ lastArg.order_id = 2
    /\ QueueAt(book, <<"Ask", MaxPrice>>) = <<3, 1>>
    /\ Stored(book, 3).prev = NoSlot
    /\ Stored(book, 1).next = NoSlot

(* The typed errors that match what is wrong with an order given to add.   *)
Rejections(b, o) ==
    (IF o.size = 0 THEN {"InvalidOrderSize"} ELSE {})
      \cup (IF o.price = 0 THEN {"InvalidOrderPrice"} ELSE {})
      \cup (IF Known(b, o.order_id) THEN {"OrderAlreadyExists"} ELSE {})

ByIdCalls == {"remove_order_by_id", "update_order", "move_to_back"}

C17_UpdateOnlyShrinks ==
    [][(/\ lastCall' = "update_order"
        /\ Known(book, lastArg'.order_id)
        /\ lastArg'.size >= Stored(book, lastArg'.order_id).size)
         => /\ lastResult' = "InvalidOrderSize"
            /\ book' = book]_vars

(* The ids of a snapshot batch, and whether one of its prev or next hints   *)
(* names an id that is not among them.                                     *)
BatchIds(batch) == {batch[i].order_id : i \in 1..Len(batch)}

Dangling(batch) ==
    \E i \in 1..Len(batch) :
       \/ batch[i].prev_order_id \notin BatchIds(batch) \cup {NoSlot}
       \/ batch[i].next_order_id \notin BatchIds(batch) \cup {NoSlot}

(* C18: add_orders_from_snapshot returns an error for every batch in which *)
(* a prev or next hint names an order id that is not in the batch.         *)
C18_DanglingHintIsRejected ==
    [][(lastCall' = "add_orders_from_snapshot" /\ Dangling(lastArg'))
         => IsError(lastResult')]_vars

(* The level keys of a batch, the ids of a batch at a level, and the queue  *)
(* that the prev and next hints of the batch define for the level: the     *)
(* arrangement of the level's ids in which every order's hints name its    *)
(* neighbours.                                                             *)
BatchKeys(batch) == {LevelKeyOf(batch[i]) : i \in 1..Len(batch)}

BatchAt(batch, k) == {batch[i].order_id : i \in {j \in 1..Len(batch) : LevelKeyOf(batch[j]) = k}}

HintsGive(batch, k, q) ==
    /\ SeqRange(q) = BatchAt(batch, k)
    /\ Len(q) = Cardinality(BatchAt(batch, k))
    /\ \A i \in 1..Len(batch) :
         LevelKeyOf(batch[i]) = k
           => \E p \in 1..Len(q) :
                 /\ q[p] = batch[i].order_id
                 /\ batch[i].prev_order_id = IF p = 1 THEN NoSlot ELSE q[p - 1]
                 /\ batch[i].next_order_id = IF p = Len(q) THEN NoSlot ELSE q[p + 1]

WellHinted(batch) == \A k \in BatchKeys(batch) : \E q \in IdSeqs : HintsGive(batch, k, q)

HintOrder(batch, k) == CHOOSE q \in IdSeqs : HintsGive(batch, k, q)

(* C19: after the book is built from a snapshot, through                   *)
(* add_orders_from_snapshot or through the snapshot builder, the FIFO      *)
(* iteration of every level is the queue that the prev and next hints of   *)
(* its orders define, in whatever order the orders were supplied or        *)
(* fetched.                                                                *)
C19_SnapshotQueuesFollowHints ==
    [][(/\ lastCall' \in {"add_orders_from_snapshot", "perpetual_orders"}
        /\ lastResult' = "Ok"
        /\ WellHinted(lastArg'))
         => \A k \in BatchKeys(lastArg') :
               QueueAt(book', k) = HintOrder(lastArg', k)]_vars

(* C6: after every successful book mutation (add, in-place update,         *)
(* move_to_back, remove, snapshot load) the cached size of every level is  *)
(* the sum of the sizes of the orders in its chain and its cached count is *)
(* the length of that chain.                                               *)
C6_AggregatesMatchChain == lastResult = "Ok" => AggregatesMatchChain(book)

(* C7: after every successful book mutation, in every level the head has   *)
(* no prev, the tail has no next, next from the head reaches the tail and  *)
(* prev from the tail visits the same orders in reverse.                   *)
C7_ChainEndsLinked == lastResult = "Ok" => ChainEndsLinked(book)

(* C8: after every successful book mutation a level is in a side's price   *)
(* map iff at least one order rests at that price on that side.            *)
C8_LevelIffOrders == lastResult = "Ok" => LevelIffOrders(book)

(* C9: whenever a book mutation returns an error, no partial mutation has  *)
(* been applied, lookup by id agrees with level membership and I1-I7 hold. *)
C9_ErrorLeavesBookConsistent ==
    [][IsError(lastResult')
         => /\ book' = book
            /\ IndexAgrees(book')
            /\ BookInvariants(book')]_vars

(* C10: the book that add_orders_from_snapshot builds from a batch it      *)
(* accepts on an empty book satisfies I1-I7.                               *)
C10_SnapshotSatisfiesInvariants ==
    (lastCall = "add_orders_from_snapshot" /\ lastResult = "Ok")
      => BookInvariants(book)

(* The poll in progress has a source call that failed with `kind`. *)
CallFailed(kind) ==
    /\ pc = "query"
    /\ \/ headReply.kind = kind
       \/ logsReply.kind = kind /\ headReply.kind \notin SourceErrors

(* C31: a failure of a source call (transport or invalid request, as the   *)
(* provider reports it) is not followed by a sleep and a silent retry: the *)
(* poll ends by yielding an Err item of that failure, with the cursor      *)
(* unchanged; a log that does not decode is yielded as an Err item with    *)
(* the cursor unchanged as well.                                           *)
C31_SourceFailuresAreSurfaced ==
    [][/\ \A kind \in SourceErrors :
            CallFailed(kind)
            => /\ pc' = "query"
               /\ cursor' = cursor
               /\ \/ yielded' = yielded /\ headReply' = headReply /\ logsReply' = logsReply
                  \/ yielded' = Append(yielded, ErrItem(kind))
       /\ (yielded' # yielded /\ yielded'[Len(yielded')].kind # "Ok")
          => cursor' = cursor]_vars

(* C36: while track_all_accounts is false no apply_events call adds an     *)
(* account to Exchange.accounts or removes one from it, whatever           *)
(* AccountCreated events and events of unknown accounts the batch holds;   *)
(* the flag itself never changes, so accounts are created by events only   *)
(* where it is true.                                                       *)
C36_AccountSetFixedUnlessTrackingAll ==
    [][/\ exchange'.track_all_accounts = exchange.track_all_accounts
       /\ ~exchange.track_all_accounts
          => DOMAIN exchange'.accounts = DOMAIN exchange.accounts]_vars

(* A batch with the creation of an account the exchange does not hold and  *)
(* with a deposit to it was applied where not all accounts are tracked.    *)
C36_Witness ==
    /\ ~exchange.track_all_accounts
    /\ applyResult.kind = "Ok"
    /\ \E i, j \in DOMAIN batchEvents :
          /\ batchEvents[i].kind = "AccountCreated"
          /\ batchEvents[i].account \notin DOMAIN exchange.accounts
          /\ batchEvents[j].kind = "CollateralDeposit"
          /\ batchEvents[j].account \notin DOMAIN exchange.accounts

(* C37: every read of SnapshotBuilder::build is evaluated at the block the *)
(* block id was resolved to, and the accounts of the snapshot are those of *)
(* that block, however the chain grows while the snapshot is built.        *)
C37_EveryReadAtTheSnapshotBlock ==
    /\ builder.pc # "normalize_block"
       => \A r \in builder.reads : r.block = builder.block_id
    /\ builder.pc = "done" => builder.accounts = 1..ledger[builder.block_id]

(* C38: every Ok batch the stream yields for block N holds exactly the     *)
(* exchange logs of block N, however the two queries of a poll interleave  *)
(* with the growth of the chain.                                           *)
C38_OkBatchHoldsTheLogsOfItsBlock ==
    \A i \in DOMAIN yielded :
       yielded[i].kind = "Ok"
       => /\ yielded[i].block_number \in DOMAIN chain
          /\ yielded[i].logs = chain[yielded[i].block_number]

(* C39: while the consumer runs, the batch of the snapshot block is        *)
(* answered as already applied and leaves the snapshot as it is, the batch *)
(* of every later block meets the snapshot at the block before it, is      *)
(* never answered BlockOutOfOrder or as already applied, and on success    *)
(* moves the snapshot to its instant: the blocks after the snapshot block  *)
(* are applied once each, in order.                                        *)
C39_StreamedBlocksAppliedOnce ==
    /\ [](applyResult.kind \in {"Init", "Ok", "AlreadyApplied"}
          => exchange.instant.block_number
               = IF OkItems(yielded) = <<>> THEN from ELSE from + Len(OkItems(yielded)) - 1)
    /\ [][(yielded' # yielded /\ yielded'[Len(yielded')].kind = "Ok")
           => LET item == yielded'[Len(yielded')]
              IN /\ applyResult'.kind # "BlockOutOfOrder"
                 /\ item.block_number >= from
                 /\ item.block_number = from
                    => applyResult'.kind = "AlreadyApplied" /\ exchange' = exchange
                 /\ item.block_number > from
                    => /\ applyResult'.kind # "AlreadyApplied"
                       /\ exchange.instant.block_number + 1 = item.block_number
                       /\ applyResult'.kind = "Ok"
                          => exchange'.instant
                               = StateInstant(item.block_number, item.block_timestamp)]_vars

(* The snapshot block was passed over and the two blocks after it applied. *)
C39_Witness ==
    /\ applyResult.kind = "Ok"
    /\ Len(OkItems(yielded)) = 3
    /\ exchange.instant.block_number = from + 2

(* C35: apply_events returns Ok or a typed error for every batch, whatever  *)
(* event kinds, ids, enum codes and field values it holds: no call ends in *)
(* a panic.                                                                *)
C35_ApplyEventsNeverPanics == applyResult.kind # "Panic"

----------------------------------------------------------------------------
(* Properties of the trade correlator. *)

(* The logs of the block that belong to transaction tx_index. *)
TxLogs(events, tx_index) == SelectSeq(events, LAMBDA e : e.tx_index = tx_index)

(* A transaction made of a request with a side, maker fills of configured  *)
(* perpetuals and a closing taker fill.                                    *)
IsTakerTransaction(q) ==
    /\ Len(q) >= 3
    /\ q[1].kind = "OrderRequest" /\ try_side(q[1].type) # None
    /\ q[Len(q)].kind = "TakerOrderFilled"
    /\ \A i \in 2..(Len(q) - 1) :
          q[i].kind = "MakerOrderFilled" /\ q[i].perp \in ConfiguredPerpetuals

(* The trade the specification gives for such a transaction. *)
ExpectedTrade(q) ==
    [tx_hash |-> q[1].tx_hash, tx_index |-> q[1].tx_index,
     perpetual_id |-> q[2].perp,
     taker_account_id |-> q[1].account, taker_side |-> try_side(q[1].type)[1],
     taker_fee |-> q[Len(q)].fee,
     maker_fills |-> [i \in 1..(Len(q) - 2) |->
                        [log_index |-> q[i + 1].log_index,
                         maker_account_id |-> q[i + 1].account,
                         maker_order_id |-> q[i + 1].order_id]]]

(* C32: a transaction of a request with a side, k >= 1 maker fills and a   *)
(* taker fill gives exactly one trade, attributed to the account and side  *)
(* of the request, with the fee of the taker fill and with those k fills   *)
(* in log order, whatever the earlier transactions and blocks held.        *)
C32_TakerTransactionGivesOneTrade ==
    [][\A tx_index \in 0..MaxTxIndex :
          IsTakerTransaction(TxLogs(tradeBlock'.events, tx_index))
          => SelectSeq(trades', LAMBDA tr : tr.tx_index = tx_index)
             = <<ExpectedTrade(TxLogs(tradeBlock'.events, tx_index))>>]_vars

(* The processor and the trades after the first j logs of the block. *)
After(tp, events, j) == process_block(tp, SubSeq(events, 1, j))

(* The j-th log of the block made process_event return a trade. *)
EmittedAt(tp, events, j) ==
    Len(After(tp, events, j).trades) > Len(After(tp, events, j - 1).trades)

(* C33: the context and the buffer are cleared at every transaction        *)
(* boundary, the one between two blocks included: the fills left in the    *)
(* buffer after a block are fills of its last transaction, and a trade     *)
(* takes its account and side from a request of its own transaction.       *)
C33_ClearedAtEveryBoundary ==
    [][tradeBlock'.events # <<>>
       => LET events == tradeBlock'.events
              last == events[Len(events)]
          IN /\ \A i \in DOMAIN processor'.pending_maker_fills :
                   processor'.pending_maker_fills[i].tx_hash = last.tx_hash
             /\ \A k \in DOMAIN trades' :
                   \E i \in DOMAIN events :
                      /\ events[i].kind = "OrderRequest"
                      /\ events[i].tx_hash = trades'[k].tx_hash
                      /\ events[i].account = trades'[k].taker_account_id
                      /\ try_side(events[i].type) = Some(trades'[k].taker_side)]_vars

(* C34: a taker fill that finds the buffer empty or no context gives no    *)
(* trade and leaves neither a context nor a buffer, and a later taker fill *)
(* of the same transaction gives no trade unless a request with a side     *)
(* came in between.                                                        *)
C34_UnmatchedTakerFillClearsState ==
    [][\A i \in DOMAIN tradeBlock'.events :
          LET events == tradeBlock'.events
              before == ResetAtBoundary(
                           [After(processor, events, i - 1).tp EXCEPT
                               !.prev_tx_index = IF i = 1 THEN processor.prev_tx_index
                                                 ELSE events[i - 1].tx_index],
                           events[i])
          IN (/\ events[i].kind = "TakerOrderFilled"
              /\ \/ before.pending_maker_fills = <<>>
                 \/ before.order_context = None)
             => /\ ~EmittedAt(processor, events, i)
                /\ After(processor, events, i).tp.order_context = None
                /\ After(processor, events, i).tp.pending_maker_fills = <<>>
                /\ \A j \in (i + 1)..Len(events) :
                      (/\ events[j].kind = "TakerOrderFilled"
                       /\ events[j].tx_index = events[i].tx_index
                       /\ \A m \in (i + 1)..(j - 1) :
                             ~(/\ events[m].kind = "OrderRequest"
                               /\ try_side(events[m].type) # None))
                      => ~EmittedAt(processor, events, j)]_vars

(* C40: a trade carries the account and the side of the request that most  *)
(* recently preceded its taker fill in the same transaction, whatever the  *)
(* type of that request.                                                   *)
C40_TradeCarriesLatestRequest ==
    [][\A j \in DOMAIN tradeBlock'.events :
          EmittedAt(processor, tradeBlock'.events, j)
          => LET events == tradeBlock'.events
                 found == After(processor, events, j).trades
                 trade == found[Len(found)]
                 requests == {i \in 1..(j - 1) :
                                 /\ events[i].kind = "OrderRequest"
                                 /\ events[i].tx_index = events[j].tx_index}
             IN /\ requests # {}
                /\ \E i \in requests :
                      /\ \A m \in requests : m <= i
                      /\ events[i].account = trade.taker_account_id
                      /\ try_side(events[i].type) = Some(trade.taker_side)]_vars

====
